---------------------------- MODULE Spec2Model ----------------------------
(***************************************************************************)
(* A model of the miqot Umroh package browser: the App component (fetch,   *)
(* filter state and the derived list), the getPackages data service, the   *)
(* three edge-function proxies and the meta-tag middleware.                *)
(*                                                                         *)
(* Text the program inspects character by character (routes, dates,        *)
(* names, queries) is modelled as a sequence of one-character strings, so  *)
(* that split, trim, case conversion and includes are computed as the code *)
(* computes them.  Text the program only passes along (error messages,     *)
(* header values) is a TLA+ string.                                        *)
(***************************************************************************)
EXTENDS Integers, Sequences, FiniteSets, TLC

(***************************************************************************)
(* Bounds of the model.                                                    *)
(***************************************************************************)
\* the number of getPackages requests App starts in one run
MaxRequests == 2
\* the length of a clock tick in ms, and the number of ticks the clock runs
TickMs == 5000
MaxTicks == 3
\* fetches a retrying proxy would be allowed to make for one request
MaxFetches == 3
\* the longest array a function of utils/filterLogic is called on
MaxLen == 3
\* the number of times the share buttons are pressed
MaxRuns == 2

(***************************************************************************)
(* JavaScript strings and numbers.                                         *)
(***************************************************************************)
UpperLetters == <<"A", "B", "C", "D", "E", "F", "G", "H", "I", "J", "K", "L", "M", "N", "O", "P", "Q", "R", "S", "T", "U", "V", "W", "X", "Y", "Z">>
LowerLetters == <<"a", "b", "c", "d", "e", "f", "g", "h", "i", "j", "k", "l", "m", "n", "o", "p", "q", "r", "s", "t", "u", "v", "w", "x", "y", "z">>
Digits == <<"0", "1", "2", "3", "4", "5", "6", "7", "8", "9">>

\* the value of a failed number conversion, and the largest number
NaN == 0 - (10 ^ 9)
Infinity == 10 ^ 9

IndexIn(c, letters) == CHOOSE i \in 1..Len(letters) : letters[i] = c
IsIn(c, letters) == \E i \in 1..Len(letters) : letters[i] = c

LowerChar(c) == IF IsIn(c, UpperLetters) THEN LowerLetters[IndexIn(c, UpperLetters)] ELSE c
UpperChar(c) == IF IsIn(c, LowerLetters) THEN UpperLetters[IndexIn(c, LowerLetters)] ELSE c

\* String.prototype.toLowerCase / toUpperCase
ToLowerCase(s) == [i \in 1..Len(s) |-> LowerChar(s[i])]
ToUpperCase(s) == [i \in 1..Len(s) |-> UpperChar(s[i])]

\* String.prototype.includes
Includes(s, q) == \E i \in 0..(Len(s) - Len(q)) : SubSeq(s, i + 1, i + Len(q)) = q

IsSpace(c) == c = " "

\* String.prototype.trim
RECURSIVE TrimStart(_)
TrimStart(s) == IF s # <<>> /\ IsSpace(Head(s)) THEN TrimStart(Tail(s)) ELSE s
RECURSIVE TrimEnd(_)
TrimEnd(s) == IF s # <<>> /\ IsSpace(s[Len(s)]) THEN TrimEnd(SubSeq(s, 1, Len(s) - 1)) ELSE s
Trim(s) == TrimEnd(TrimStart(s))

\* String.prototype.split with a literal separator (a non-empty string)
RECURSIVE SplitLiteral(_, _)
SplitLiteral(s, sep) ==
    IF Includes(s, sep)
    THEN LET i == CHOOSE k \in 0..(Len(s) - Len(sep)) :
                      /\ SubSeq(s, k + 1, k + Len(sep)) = sep
                      /\ \A j \in 0..(k - 1) : SubSeq(s, j + 1, j + Len(sep)) # sep
         IN  <<SubSeq(s, 1, i)>> \o SplitLiteral(SubSeq(s, i + Len(sep) + 1, Len(s)), sep)
    ELSE <<s>>

\* the en dash U+2013, one character of a route
EnDash == "ndash"
\* String.prototype.split(/\s*[-\u2013]\s*/): a dash with the white space around it
IsDash(c) == c \in {"-", EnDash}
RECURSIVE SplitDash(_)
SplitDash(s) ==
    IF \E i \in 1..Len(s) : IsDash(s[i])
    THEN LET i == CHOOSE k \in 1..Len(s) : IsDash(s[k]) /\ \A j \in 1..(k - 1) : ~IsDash(s[j])
         IN  <<TrimEnd(SubSeq(s, 1, i - 1))>> \o SplitDash(TrimStart(SubSeq(s, i + 1, Len(s))))
    ELSE <<s>>

\* parseInt(s, 10) of an unsigned decimal: the leading digits, NaN without any
RECURSIVE DigitsValue(_, _)
DigitsValue(s, acc) ==
    IF s # <<>> /\ IsIn(Head(s), Digits)
    THEN DigitsValue(Tail(s), acc * 10 + (IndexIn(Head(s), Digits) - 1))
    ELSE acc
ParseInt(s) ==
    LET t == TrimStart(s)
    IN  IF t # <<>> /\ IsIn(Head(t), Digits) THEN DigitsValue(t, 0) ELSE NaN

\* a - b of two numbers as a sort comparator reads it: NaN counts as 0
Minus(a, b) ==
    IF a = NaN \/ b = NaN \/ (a = Infinity /\ b = Infinity) THEN 0
    ELSE IF a = Infinity THEN Infinity
    ELSE IF b = Infinity THEN 0 - Infinity
    ELSE a - b

\* Array.prototype.sort (stable) with the comparator Cmp: each element in turn
\* is inserted behind the last element that does not compare greater than it.
\* (The array is bound to a variable first, so that it is worked out once.)
InsertSorted(sorted, x, Cmp(_, _)) ==
    CHOOSE r \in UNION {{SubSeq(a, 1, p) \o <<x>> \o SubSeq(a, p + 1, Len(a)) :
                           p \in {k \in 0..Len(a) :
                                     /\ k = 0 \/ Cmp(a[k], x) <= 0
                                     /\ \A q \in (k + 1)..Len(a) : Cmp(a[q], x) > 0}} :
                        a \in {sorted}} : TRUE
Sort(s, Cmp(_, _)) ==
    CHOOSE r \in {LET ins[k \in 0..Len(a)] ==
                          IF k = 0 THEN <<>> ELSE InsertSorted(ins[k - 1], a[k], Cmp)
                  IN  ins[Len(a)] : a \in {s}} : TRUE

\* Array.prototype.filter
Filter(s, Keep(_)) ==
    CHOOSE r \in {LET acc[k \in 0..Len(a)] ==
                          IF k = 0 THEN <<>>
                          ELSE IF Keep(a[k]) THEN Append(acc[k - 1], a[k]) ELSE acc[k - 1]
                  IN  acc[Len(a)] : a \in {s}} : TRUE

\* Array.prototype.map
Map(s, F(_)) == CHOOSE r \in {[i \in 1..Len(a) |-> F(a[i])] : a \in {s}} : TRUE

\* new Date("YYYY-MM-DD").getTime(), in days on a scale that keeps the order
DateTime(tgl) ==
    ParseInt(SubSeq(tgl, 1, 4)) * 372 + ParseInt(SubSeq(tgl, 6, 7)) * 31
        + ParseInt(SubSeq(tgl, 9, 10))

(***************************************************************************)
(* The package record and the raw API item (types/umroh-package).  A       *)
(* pricing or hotel table is the sequence of its tiers in key order, which *)
(* is the order Object.values and Object.entries visit them in.  An absent *)
(* optional price is the empty string: both are falsy.                     *)
(***************************************************************************)
\* paket_hotel as the API may send it: an object, or null
HotelObject(tiers) == [kind |-> "object", tiers |-> tiers]
HotelNull == [kind |-> "null", tiers |-> <<>>]

Raw1 == [jadwal_id |-> "JBU1", jadwal_nama |-> <<"R", "a", "h", "m", "a", "h", " ", "9">>, promo |-> <<"1">>,
         seat_total |-> <<"4", "5">>, seat_sisa |-> <<"5">>, maskapai |-> <<"G", "A", "R", "U", "D", "A">>,
         berangkat_tgl |-> <<"2", "0", "2", "6", "-", "0", "8", "-", "1", "0">>, berangkat_jam |-> <<"0", "8", ".", "3", "0">>,
         berangkat_rute |-> <<"C", "G", "K", " ", "-", " ", "J", "E", "D">>, berangkat_kode_penerbangan |-> <<"G", "A", " ", "9", "8", "0">>,
         pulang_tgl |-> <<"2", "0", "2", "6", "-", "0", "8", "-", "2", "1">>, pulang_jam |-> <<"2", "2", ".", "1", "5">>,
         pulang_rute |-> <<"M", "E", "D", " ", "-", " ", "C", "G", "K">>, pulang_kode_penerbangan |-> <<"G", "A", " ", "9", "8", "1">>,
         paket_harga |-> <<[tier |-> "RAHMAH", Double |-> <<"3", "5">>, Triple |-> <<"3", "3">>, Quard |-> <<"3", "1">>]>>,
         paket_hotel |-> HotelObject(<<[tier |-> "RAHMAH", mekkah_hotel |-> <<"Z", "a", "m", "z", "a", "m">>,
                                        madinah_hotel |-> <<"R", "a", "w", "d", "a">>]>>)]
Raw2 == [jadwal_id |-> "JBU2", jadwal_nama |-> <<"H", "e", "m", "a", "t", " ", "1", "2">>, promo |-> <<"0">>,
         seat_total |-> <<"4", "0">>, seat_sisa |-> <<"0">>, maskapai |-> <<"S", "A", "U", "D", "I", "A">>,
         berangkat_tgl |-> <<"2", "0", "2", "6", "-", "0", "6", "-", "0", "1">>, berangkat_jam |-> <<"1", "4", ".", "0", "0">>,
         berangkat_rute |-> <<"C", "G", "K", " ", "-", " ", "M", "E", "D">>, berangkat_kode_penerbangan |-> <<"S", "V", " ", "8", "1", "9">>,
         pulang_tgl |-> <<"2", "0", "2", "6", "-", "0", "6", "-", "1", "2">>, pulang_jam |-> <<"0", "3", ".", "4", "0">>,
         pulang_rute |-> <<"J", "E", "D", " ", "-", " ", "C", "G", "K">>, pulang_kode_penerbangan |-> <<"S", "V", " ", "8", "2", "0">>,
         paket_harga |-> <<[tier |-> "HEMAT", Double |-> <<"2", "9">>, Triple |-> <<>>, Quard |-> <<"2", "7">>]>>,
         paket_hotel |-> HotelObject(<<[tier |-> "HEMAT", mekkah_hotel |-> <<"S", "a", "f", "w", "a">>,
                                        madinah_hotel |-> <<"T", "a", "i", "b", "a">>]>>)]
Raw3 == [jadwal_id |-> "JBU3", jadwal_nama |-> <<"P", "l", "u", "s", " ", "C", "a", "i", "r", "o">>, promo |-> <<"1">>,
         seat_total |-> <<"3", "0">>, seat_sisa |-> <<"1", "2">>, maskapai |-> <<"H", "A", "I", "N", "A", "N">>,
         berangkat_tgl |-> <<"2", "0", "2", "6", "-", "0", "6", "-", "2", "0">>, berangkat_jam |-> <<"1", "9", ".", "4", "5">>,
         berangkat_rute |-> <<"C", "G", "K", " ", EnDash, " ", "j", "e", "d">>,
         berangkat_kode_penerbangan |-> <<"H", "U", " ", "7">>,
         pulang_tgl |-> <<"2", "0", "2", "6", "-", "0", "7", "-", "0", "2">>, pulang_jam |-> <<"1", "1", ".", "0", "5">>,
         pulang_rute |-> <<"C", "A", "I", " ", "-", " ", "C", "G", "K">>, pulang_kode_penerbangan |-> <<"H", "U", " ", "8">>,
         paket_harga |-> <<[tier |-> "UHUD", Double |-> <<"0">>, Triple |-> <<"3", "0">>, Quard |-> <<"0">>],
                           [tier |-> "RAHMAH", Double |-> <<"3", "8">>, Triple |-> <<>>, Quard |-> <<>>]>>,
         paket_hotel |-> HotelObject(<<[tier |-> "UHUD", mekkah_hotel |-> <<"H", "i", "l", "t", "o", "n">>,
                                        madinah_hotel |-> <<"R", "a", "w", "d", "a">>]>>)]
Raw4 == [jadwal_id |-> "JBV1", jadwal_nama |-> <<"U", "h", "u", "d", " ", "9">>, promo |-> <<"0">>,
         seat_total |-> <<"4", "5">>, seat_sisa |-> <<"4", "5">>, maskapai |-> <<"G", "A", "R", "U", "D", "A">>,
         berangkat_tgl |-> <<"2", "0", "2", "7", "-", "0", "7", "-", "0", "5">>, berangkat_jam |-> <<"0", "6", ".", "0", "0">>,
         berangkat_rute |-> <<"C", "G", "K", " ", "-", " ", "J", "E", "D">>, berangkat_kode_penerbangan |-> <<"G", "A", " ", "9", "8", "0">>,
         pulang_tgl |-> <<"2", "0", "2", "7", "-", "0", "7", "-", "1", "4">>, pulang_jam |-> <<"1", "8", ".", "0", "0">>,
         pulang_rute |-> <<"J", "E", "D", " ", "-", " ", "C", "G", "K">>, pulang_kode_penerbangan |-> <<"G", "A", " ", "9", "8", "1">>,
         paket_harga |-> <<[tier |-> "UHUD", Double |-> <<"3", "6">>, Triple |-> <<"3", "4">>, Quard |-> <<"3", "2">>]>>,
         paket_hotel |-> HotelObject(<<[tier |-> "UHUD", mekkah_hotel |-> <<"Z", "a", "m", "z", "a", "m">>,
                                        madinah_hotel |-> <<"T", "a", "i", "b", "a">>]>>)]
Raw5 == [jadwal_id |-> "JBV2", jadwal_nama |-> <<"R", "a", "h", "m", "a", "h", " ", "1", "2">>, promo |-> <<"1">>,
         seat_total |-> <<"4", "0">>, seat_sisa |-> <<"3">>, maskapai |-> <<"S", "A", "U", "D", "I", "A">>,
         berangkat_tgl |-> <<"2", "0", "2", "7", "-", "0", "6", "-", "1", "5">>, berangkat_jam |-> <<"2", "3", ".", "1", "0">>,
         berangkat_rute |-> <<"C", "G", "K", " ", "-", " ", "M", "E", "D">>, berangkat_kode_penerbangan |-> <<"S", "V", " ", "8", "1", "9">>,
         pulang_tgl |-> <<"2", "0", "2", "7", "-", "0", "6", "-", "2", "7">>, pulang_jam |-> <<"0", "9", ".", "2", "0">>,
         pulang_rute |-> <<"J", "E", "D", " ", "-", " ", "C", "G", "K">>, pulang_kode_penerbangan |-> <<"S", "V", " ", "8", "2", "0">>,
         paket_harga |-> <<[tier |-> "RAHMAH", Double |-> <<"3", "3">>, Triple |-> <<"3", "0">>, Quard |-> <<"2", "8">>]>>,
         paket_hotel |-> HotelObject(<<[tier |-> "RAHMAH", mekkah_hotel |-> <<"S", "a", "f", "w", "a">>,
                                        madinah_hotel |-> <<"R", "a", "w", "d", "a">>]>>)]
\* an item whose paket_hotel is null
RawNoHotel == [Raw2 EXCEPT !.paket_hotel = HotelNull]

transformHotelInfo(rawHotel) == rawHotel

\* transformPackage throws (Object.entries of null) when paket_hotel is null
transformPackageThrows(raw) == raw.paket_hotel.kind = "null"

transformPackage(raw) ==
    [jadwalId |-> raw.jadwal_id,
     nama |-> raw.jadwal_nama,
     isPromo |-> (raw.promo = <<"1">>),
     seatTotal |-> ParseInt(raw.seat_total),
     seatSisa |-> ParseInt(raw.seat_sisa),
     maskapai |-> raw.maskapai,
     keberangkatan |-> [tgl |-> raw.berangkat_tgl, jam |-> raw.berangkat_jam,
                        rute |-> raw.berangkat_rute,
                        kodePenerbangan |-> raw.berangkat_kode_penerbangan],
     kepulangan |-> [tgl |-> raw.pulang_tgl, jam |-> raw.pulang_jam,
                     rute |-> raw.pulang_rute,
                     kodePenerbangan |-> raw.pulang_kode_penerbangan],
     harga |-> raw.paket_harga,
     hotel |-> Map(raw.paket_hotel.tiers, transformHotelInfo)]

(***************************************************************************)
(* Filter utilities (utils/filterLogic).                                   *)
(***************************************************************************)
\* CITY_NAMES[code] || code
getCityName(code) ==
    CASE code = <<"J", "E", "D">> -> <<"J", "e", "d", "d", "a", "h">>
      [] code = <<"M", "E", "D">> -> <<"M", "a", "d", "i", "n", "a", "h">>
      [] code = <<"C", "G", "K">> -> <<"J", "a", "k", "a", "r", "t", "a">>
      [] code = <<"H", "A", "K">> -> <<"H", "a", "i", "k", "o", "u">>
      [] code = <<"I", "S", "T">> -> <<"I", "s", "t", "a", "n", "b", "u", "l">>
      [] code = <<"C", "A", "I">> -> <<"C", "a", "i", "r", "o">>
      [] OTHER -> code

extractDestinationCity(route) ==
    LET parts == SplitDash(route)
    IN  IF Len(parts) >= 2 THEN ToUpperCase(Trim(parts[Len(parts)]))
        ELSE ToUpperCase(Trim(route))

\* String(n) of a natural number
RECURSIVE NumberToString(_)
NumberToString(n) ==
    IF n < 10 THEN <<Digits[n + 1]>>
    ELSE Append(NumberToString(n \div 10), Digits[(n % 10) + 1])
\* String.prototype.padStart(2, '0')
PadStart2(s) == IF Len(s) < 2 THEN <<"0">> \o s ELSE s

\* the time zone of the device the page runs on
VARIABLE timeZone
TimeZones == {"Asia/Jakarta", "America/New_York"}
\* the calendar day before y-m-d
DayBefore(y, m, d) ==
    LET IsLeapYear == (y % 4 = 0 /\ y % 100 # 0) \/ y % 400 = 0
        DaysInMonth(month) ==
            CASE month \in {4, 6, 9, 11} -> 30
              [] month = 2 -> IF IsLeapYear THEN 29 ELSE 28
              [] OTHER -> 31
    IN  IF d > 1 THEN [y |-> y, m |-> m, d |-> d - 1]
        ELSE IF m > 1 THEN [y |-> y, m |-> m - 1, d |-> DaysInMonth(m - 1)]
        ELSE [y |-> y - 1, m |-> 12, d |-> 31]

\* new Date("YYYY-MM-DD") is midnight UTC of that day; its fields are read in
\* local time: the same day in a zone ahead of UTC, the day before in one behind
LocalDate(dateStr) ==
    LET y == ParseInt(SubSeq(dateStr, 1, 4))
        m == ParseInt(SubSeq(dateStr, 6, 7))
        d == ParseInt(SubSeq(dateStr, 9, 10))
    IN  IF timeZone = "America/New_York" THEN DayBefore(y, m, d) ELSE [y |-> y, m |-> m, d |-> d]
getFullYear(dateStr) == LocalDate(dateStr).y
getMonth(dateStr) == LocalDate(dateStr).m - 1
getDate(dateStr) == LocalDate(dateStr).d

getMonthKey(dateStr) ==
    NumberToString(getFullYear(dateStr)) \o <<"-">>
        \o PadStart2(NumberToString(getMonth(dateStr) + 1))

\* "return data": the call returns its argument itself, not a new array
filterPackagesReturnsData(params) ==
    \/ params.mode = "SEMUA DATA"
    \/ params.mode \in {"LANDING", "DATA PER-BULAN"} /\ params.secondaryValue = <<>>
    \/ params.mode \notin {"SEMUA DATA", "AVAILABLE", "PROMO", "LANDING", "DATA PER-BULAN"}

filterPackages(data, params) ==
    LET available(pkg) == pkg.seatSisa # NaN /\ pkg.seatSisa > 0
        promo(pkg) == pkg.isPromo
        landing(pkg) ==
            LET destCity == extractDestinationCity(pkg.keberangkatan.rute)
            IN  \/ destCity = ToUpperCase(params.secondaryValue)
                \/ ToLowerCase(getCityName(destCity)) = ToLowerCase(params.secondaryValue)
        month(pkg) == getMonthKey(pkg.keberangkatan.tgl) = params.secondaryValue
    IN  CASE params.mode = "SEMUA DATA" -> data
          [] params.mode = "AVAILABLE" -> Filter(data, available)
          [] params.mode = "PROMO" -> Filter(data, promo)
          [] params.mode = "LANDING" ->
                IF params.secondaryValue = <<>> THEN data ELSE Filter(data, landing)
          [] params.mode = "DATA PER-BULAN" ->
                IF params.secondaryValue = <<>> THEN data ELSE Filter(data, month)
          [] OTHER -> data

(***************************************************************************)
(* The data service (services/api): getPackages.                           *)
(***************************************************************************)
\* null and undefined, where a string is expected
Null == "(null)"
Undefined == "(undefined)"

\* timeout = 10000, the default of options.timeout
DefaultTimeoutMs == 10000

\* the result of a failed call
GetPackagesFailure(errorMessage) ==
    [success |-> FALSE, packages |-> <<>>, totalRecords |-> 0, error |-> errorMessage]

\* error instanceof Error ? error.message : 'Unknown error occurred'
CaughtMessage(thrown) ==
    IF thrown.isError THEN thrown.message ELSE "Unknown error occurred"

\* what the platform throws
FetchFailedError == [isError |-> TRUE, message |-> "Failed to fetch"]
AbortError == [isError |-> TRUE, message |-> "signal is aborted without reason"]
JsonSyntaxError == [isError |-> TRUE, message |-> "Unexpected token < in JSON at position 0"]
NullEntriesError == [isError |-> TRUE, message |-> "Cannot convert undefined or null to object"]
\* what getPackages throws itself
HttpError(status) == [isError |-> TRUE, message |-> "HTTP error! status: " \o ToString(status)]
ApiStatusError == [isError |-> TRUE, message |-> "API returned error status"]

\* a response is OK when its status is in 200..299
ResponseOk(status) == status >= 200 /\ status <= 299

\* the headers check as it would be without the response.ok test
ThrownOnHeadersUnchecked(status) == <<>>

\* if (!response.ok) throw ...: what the headers make the call throw, if anything
ThrownOnHeaders(status) ==
    IF ~ResponseOk(status) THEN <<HttpError(status)>> ELSE <<>>

\* await response.json() and what follows it: what the body makes the call throw
ThrownOnBody(body) ==
    IF body.kind = "networkError" THEN <<FetchFailedError>>
    ELSE IF body.kind = "notJson" THEN <<JsonSyntaxError>>
    ELSE IF body.data.status # "ok" THEN <<ApiStatusError>>
    ELSE IF \E i \in 1..Len(body.data.aaData) : transformPackageThrows(body.data.aaData[i])
         THEN <<NullEntriesError>>
    ELSE <<>>

\* the return statement of the try block
ReturnedForBody(body) ==
    [success |-> TRUE,
     packages |-> Map(body.data.aaData, transformPackage),
     totalRecords |-> body.data.iTotalDisplayRecords,
     error |-> Undefined]

\* the catch block
Caught(thrown) == GetPackagesFailure(CaughtMessage(thrown))

\* the whole call as a function of what the network did
getPackages(reply) ==
    LET thrown == IF reply.net = "networkError" THEN <<FetchFailedError>>
                  ELSE IF reply.net = "aborted" THEN <<AbortError>>
                  ELSE IF ThrownOnHeaders(reply.status) # <<>> THEN ThrownOnHeaders(reply.status)
                  ELSE ThrownOnBody(reply.body)
    IN  IF thrown # <<>> THEN Caught(thrown[1]) ELSE ReturnedForBody(reply.body)

(***************************************************************************)
(* What the server may answer to a request of App for a year.              *)
(***************************************************************************)
AvailableYears == {"1448", "1449"}

JsonBody(status, aaData, total) ==
    [kind |-> "json",
     data |-> [status |-> status, aaData |-> aaData, iTotalDisplayRecords |-> total]]
HtmlBody == [kind |-> "notJson",
             data |-> [status |-> "error", aaData |-> <<>>, iTotalDisplayRecords |-> 0]]
BrokenBody == [kind |-> "networkError",
               data |-> [status |-> "error", aaData |-> <<>>, iTotalDisplayRecords |-> 0]]

NoBody == [kind |-> "none",
           data |-> [status |-> "error", aaData |-> <<>>, iTotalDisplayRecords |-> 0]]

OkReply(aaData) ==
    [net |-> "response", status |-> 200, body |-> JsonBody("ok", aaData, Len(aaData))]
StatusReply(status) ==
    [net |-> "response", status |-> status, body |-> HtmlBody]

ServerReplies(yearCode) ==
    IF yearCode = "1448"
    THEN {OkReply(<<Raw1, Raw2, Raw3>>), StatusReply(500)}
    ELSE {OkReply(<<Raw4, Raw5>>), StatusReply(500)}

\* a second record of the schedule JBV1; the server is not under the program's
\* control and transformPackage copies jadwal_id as it comes
RawSameId == [Raw5 EXCEPT !.jadwal_id = "JBV1"]
CardReplies(yearCode) ==
    IF yearCode = "1448"
    THEN {OkReply(<<Raw1, Raw2, Raw3>>), StatusReply(500)}
    ELSE {OkReply(<<Raw4, Raw5>>), OkReply(<<Raw4, RawSameId>>)}

(***************************************************************************)
(* The state of the program.                                               *)
(***************************************************************************)
VARIABLES
    \* App: React state
    mounted,                \* the mount effect has run
    packages,               \* the array held by the packages state
    loading, error,
    selectedYear, filterMode, filterSecondaryValue, searchQuery, quickFilter,
    departureTimeRanges, returnTimeRanges,
    expandedCardId,         \* the jadwalId of the card shown expanded, or null
    filteredPackages,       \* the list the last render computed (useMemo)
    requests,               \* the getPackages calls App has made, oldest first
    \* one call of getPackages, step by step
    gpPhase,                \* "idle", "fetching" (await fetch), "reading" (await json), "resolved"
    gpClock,                \* the time since the call, in ticks
    gpTimeout,              \* options.timeout, in ms
    gpTimerArmed,           \* the setTimeout of the call is pending
    gpSignalAborted,        \* controller.signal.aborted
    gpResponse,             \* <<status>> once the headers are there, <<>> before
    gpBody,                 \* the body that was read, NoBody before
    gpResult,               \* what the call resolved with
    \* one request handled by one of the edge-function proxies
    pxProxy,                \* "api" (/api/*), "brosurUrl" (/brosur?url=), "brosurPath" (/brosur/*)
    pxRequest,              \* the incoming request
    pxPhase,                \* "idle", "fetching" (await fetch), "reading" (await the body), "responded"
    pxFetches,              \* the upstream fetch calls made for the request
    pxUpstream,             \* <<the upstream response>> once fetch has resolved, <<>> before
    pxBody,                 \* the proxy's read of the upstream body: "none", "read", "failed"
    pxResponse,             \* the response returned to the client
    \* one request passing through the meta-tag middleware
    mwPhase,                \* "idle", "awaitingNext", "readingText", "responded", "threw"
    mwPath,                 \* url.pathname of the request
    mwUpstream,             \* <<the response of context.next()>> once resolved
    mwResponse,             \* <<the response the middleware returned>>
    \* one call of a function of utils/filterLogic, or of the memo of App
    fnData,                 \* the array passed, as it is after the call
    fnCall,                 \* the function called and its other arguments
    fnResult                \* what the call returned

appVars == <<mounted, packages, loading, error, selectedYear, filterMode,
             filterSecondaryValue, searchQuery, quickFilter, departureTimeRanges,
             returnTimeRanges, filteredPackages, requests, expandedCardId>>

getVars == <<gpPhase, gpClock, gpTimeout, gpTimerArmed, gpSignalAborted, gpResponse,
             gpBody, gpResult>>

proxyVars == <<pxProxy, pxRequest, pxPhase, pxFetches, pxUpstream, pxBody, pxResponse>>

metaVars == <<mwPhase, mwPath, mwUpstream, mwResponse>>

utilVars == <<timeZone, fnData, fnCall, fnResult>>

VARIABLES
    \* BrochureModal / ItineraryModal: the share button
    isSharing,              \* the isSharing state of each modal
    shPhase,                \* where the run of the share handler stands
    shRuns                  \* the runs so far: what settled and what the handler did

shareVars == <<isSharing, shPhase, shRuns>>

VARIABLES
    \* FilterHeader: the header that hides on scroll
    scrollY,                \* window.scrollY
    scrollHeight,           \* document.documentElement.scrollHeight
    isVisible,              \* the isVisible state
    lastScrollY,            \* the lastScrollY state
    listenerLastScrollY,    \* the lastScrollY closed over by the registered listener
    recordedBefore          \* history: <<lastScrollY>> as the latest scroll event found it

scrollVars == <<scrollY, scrollHeight, isVisible, lastScrollY, listenerLastScrollY,
                recordedBefore>>

vars == <<appVars, getVars, proxyVars, metaVars, utilVars, shareVars, scrollVars>>

(***************************************************************************)
(* App: the derived list.                                                  *)
(***************************************************************************)
isTimeInRanges(timeStr, ranges) ==
    LET hour == ParseInt(SplitLiteral(timeStr, <<":">>)[1])
        inRange(range) ==
            CASE range = "00-06" -> hour # NaN /\ hour >= 0 /\ hour < 6
              [] range = "06-12" -> hour # NaN /\ hour >= 6 /\ hour < 12
              [] range = "12-18" -> hour # NaN /\ hour >= 12 /\ hour < 18
              [] range = "18-24" -> hour # NaN /\ hour >= 18 /\ hour <= 24
              [] OTHER -> FALSE
    IN  ranges = <<>> \/ \E i \in 1..Len(ranges) : inRange(ranges[i])

\* the lowest positive Quard/Triple/Double price of a package, Infinity without one
AppGetMin(pkg) ==
    LET prices == {ParseInt(p) : p \in UNION {{pkg.harga[t].Quard, pkg.harga[t].Triple,
                                               pkg.harga[t].Double} \ {<<>>} :
                                              t \in 1..Len(pkg.harga)}}
        positive == {v \in prices : v # NaN /\ v > 0}
    IN  IF positive = {} THEN Infinity
        ELSE CHOOSE v \in positive : \A w \in positive : v <= w

\* Date.prototype.toLocaleDateString('id-ID', day numeric, month long, year numeric)
MonthNamesLocale ==
    <<<<"J", "a", "n", "u", "a", "r", "i">>, <<"F", "e", "b", "r", "u", "a", "r", "i">>, <<"M", "a", "r", "e", "t">>, <<"A", "p", "r", "i", "l">>, <<"M", "e", "i">>, <<"J", "u", "n", "i">>, <<"J", "u", "l", "i">>,
      <<"A", "g", "u", "s", "t", "u", "s">>, <<"S", "e", "p", "t", "e", "m", "b", "e", "r">>, <<"O", "k", "t", "o", "b", "e", "r">>, <<"N", "o", "v", "e", "m", "b", "e", "r">>, <<"D", "e", "s", "e", "m", "b", "e", "r">>>>
toLocaleDateString(dateStr) ==
    NumberToString(getDate(dateStr)) \o <<" ">> \o MonthNamesLocale[getMonth(dateStr) + 1]
        \o <<" ">> \o NumberToString(getFullYear(dateStr))

\* the omni search predicate
MatchesSearch(pkg, query) ==
    LET landingParts == SplitLiteral(pkg.keberangkatan.rute, <<" ", "-", " ">>)
        landingCity == IF Len(landingParts) >= 2 THEN landingParts[2] ELSE <<>>
    IN  \/ Includes(ToLowerCase(pkg.nama), query)
        \/ Includes(ToLowerCase(pkg.maskapai), query)
        \/ Includes(ToLowerCase(pkg.keberangkatan.kodePenerbangan), query)
        \/ Includes(ToLowerCase(pkg.kepulangan.kodePenerbangan), query)
        \/ Includes(ToLowerCase(landingCity), query)
        \/ \E t \in 1..Len(pkg.hotel) :
               \/ Includes(ToLowerCase(pkg.hotel[t].mekkah_hotel), query)
               \/ Includes(ToLowerCase(pkg.hotel[t].madinah_hotel), query)
        \/ Includes(ToLowerCase(toLocaleDateString(pkg.keberangkatan.tgl)), query)
        \/ Includes(pkg.keberangkatan.tgl, query)
        \/ Includes(pkg.kepulangan.tgl, query)

ByDepartureDate(a, b) == Minus(DateTime(a.keberangkatan.tgl), DateTime(b.keberangkatan.tgl))
BySeatSisa(a, b) == Minus(a.seatSisa, b.seatSisa)
ByMinPrice(a, b) == Minus(AppGetMin(a), AppGetMin(b))

\* whether the final sort of the memo works on a new array: TRUE as soon as one
\* of the steps before it has built one
MemoSortsCopy(fm, sv, sq, qf, dr, rr) ==
    \/ ~filterPackagesReturnsData([mode |-> fm, secondaryValue |-> sv])
    \/ Len(dr) > 0
    \/ Len(rr) > 0
    \/ qf # Null
    \/ Trim(sq) # <<>>

\* The steps of the useMemo callback of filteredPackages, each on the result
\* of the step before it.
\* 2. departure time
MemoDepartureStep(result, dr) ==
    LET keep(pkg) == isTimeInRanges(pkg.keberangkatan.jam, dr)
    IN  IF Len(dr) > 0 THEN Filter(result, keep) ELSE result
\* 3. return time
MemoReturnStep(result, rr) ==
    LET keep(pkg) == isTimeInRanges(pkg.kepulangan.jam, rr)
    IN  IF Len(rr) > 0 THEN Filter(result, keep) ELSE result
\* 4. quick filter
MemoQuickStep(result, qf) ==
    LET promo(pkg) == pkg.isPromo
        rahmah(pkg) == Includes(ToLowerCase(pkg.nama), <<"r", "a", "h", "m", "a", "h">>)
    IN  CASE qf = "promo" -> Filter(result, promo)
          [] qf = "urgent" -> Sort(result, BySeatSisa)
          [] qf = "termurah" -> Sort(result, ByMinPrice)
          [] qf = "rahmah" -> Filter(result, rahmah)
          [] OTHER -> result
\* 5. omni search
MemoSearchStep(result, sq) ==
    LET search(pkg) == MatchesSearch(pkg, Trim(ToLowerCase(sq)))
    IN  IF Trim(sq) # <<>> THEN Filter(result, search) ELSE result
\* a memo that would sort by date only when no quick filter is selected
MemoSortsByDateWithoutQuickFilter(qf) == qf = Null
\* whether the memo ends with the sort by departure date
MemoSortsByDate(qf) == qf = Null \/ (qf # "urgent" /\ qf # "termurah")
\* 6. the default sort, on the array itself
MemoSortStep(result, qf) ==
    IF MemoSortsByDate(qf) THEN Sort(result, ByDepartureDate) ELSE result

\* The useMemo callback of filteredPackages on the array pk and the filter state.
\*   list:   the array it returns
\*   stored: the array pk after the call (the final sort is in place)
filteredPackagesMemo(pk, fm, sv, sq, qf, dr, rr) ==
    CHOOSE memo \in
        {[list |-> list,
          stored |-> IF MemoSortsByDate(qf) /\ ~MemoSortsCopy(fm, sv, sq, qf, dr, rr)
                     THEN list ELSE pk] :
           list \in {MemoSortStep(
                         MemoSearchStep(
                           MemoQuickStep(
                             MemoReturnStep(
                               MemoDepartureStep(
                                 filterPackages(pk, [mode |-> fm, secondaryValue |-> sv]),
                                 dr),
                               rr),
                             qf),
                           sq),
                         qf)}} : TRUE

(***************************************************************************)
(* App: the handlers.  Every handler ends with the render its state        *)
(* updates cause, which runs the memo on the new state.                    *)
(***************************************************************************)
\* what the user can type and pick
FilterModes == {"AVAILABLE", "LANDING", "PROMO", "DATA PER-BULAN", "SEMUA DATA"}
QuickFilters == {"promo", "urgent", "termurah", "rahmah"}
\* the quick filters the user picks in Spec: one that sorts, one that filters
QuickFilterChoices == {"urgent", "rahmah"}
SearchQueries == {<<>>, <<"R", "a", "h">>}
TimeRangeChoices == {"06-12"}
SecondaryChoices(mode) ==
    CASE mode = "LANDING" -> {<<>>, <<"J", "E", "D">>}
      [] mode = "DATA PER-BULAN" -> {<<>>, <<"2", "0", "2", "6", "-", "0", "6">>}
      [] OTHER -> {}

Render(pk, fm, sv, sq, qf, dr, rr) ==
    \E memo \in {filteredPackagesMemo(pk, fm, sv, sq, qf, dr, rr)} :
        /\ packages' = memo.stored
        /\ filteredPackages' = memo.list

NoResult == [success |-> FALSE, packages |-> <<>>, totalRecords |-> 0, error |-> Null]

Pending(i) == requests[i].status = "pending"
PendingRequests == {i \in 1..Len(requests) : Pending(i)}

\* fetchPackages up to its await: setLoading(true), setError(null), getPackages(...)
FetchPackagesStart(yearCode) ==
    /\ Len(requests) < MaxRequests
    /\ loading' = TRUE
    /\ error' = Null
    /\ requests' = Append(requests, [yearCode |-> yearCode, status |-> "pending",
                                     result |-> NoResult])

\* the effect of the first render: fetchPackages(selectedYear)
Mount ==
    /\ ~mounted
    /\ mounted' = TRUE
    /\ FetchPackagesStart(selectedYear)
    /\ Render(packages, filterMode, filterSecondaryValue, searchQuery, quickFilter,
              departureTimeRanges, returnTimeRanges)
    /\ UNCHANGED <<selectedYear, filterMode, filterSecondaryValue, searchQuery,
                   quickFilter, departureTimeRanges, returnTimeRanges>>
    /\ UNCHANGED expandedCardId

\* handleYearChange, and the effect on [selectedYear] when the year has changed
handleYearChange(year) ==
    /\ mounted
    /\ selectedYear' = year
    /\ filterMode' = "AVAILABLE"
    /\ filterSecondaryValue' = <<>>
    /\ searchQuery' = <<>>
    /\ quickFilter' = Null
    /\ departureTimeRanges' = <<>>
    /\ returnTimeRanges' = <<>>
    /\ IF year # selectedYear
       THEN FetchPackagesStart(year)
       ELSE UNCHANGED <<loading, error, requests>>
    /\ Render(packages, "AVAILABLE", <<>>, <<>>, Null, <<>>, <<>>)
    /\ UNCHANGED mounted
    /\ UNCHANGED expandedCardId

\* the "Coba Lagi" button of the error banner, shown when error && !loading
RetryClick ==
    /\ mounted
    /\ error # Null /\ ~loading
    /\ FetchPackagesStart(selectedYear)
    /\ Render(packages, filterMode, filterSecondaryValue, searchQuery, quickFilter,
              departureTimeRanges, returnTimeRanges)
    /\ UNCHANGED <<mounted, selectedYear, filterMode, filterSecondaryValue, searchQuery,
                   quickFilter, departureTimeRanges, returnTimeRanges>>
    /\ UNCHANGED expandedCardId

\* fetchPackages after its await as it would be without setPackages([]) on failure
FetchPackagesResumeKeepsList(i, result) ==
    /\ requests' = [requests EXCEPT ![i] = [@ EXCEPT !.status = "resolved",
                                                    !.result = result]]
    /\ IF result.success
       THEN /\ Render(result.packages, filterMode, filterSecondaryValue, searchQuery,
                      quickFilter, departureTimeRanges, returnTimeRanges)
            /\ UNCHANGED error
       ELSE /\ error' = (IF result.error \in {Undefined, ""} THEN "Gagal memuat data"
                         ELSE result.error)
            /\ Render(packages, filterMode, filterSecondaryValue, searchQuery,
                      quickFilter, departureTimeRanges, returnTimeRanges)
    /\ loading' = FALSE
    /\ UNCHANGED <<mounted, selectedYear, filterMode, filterSecondaryValue, searchQuery,
                   quickFilter, departureTimeRanges, returnTimeRanges>>
    /\ UNCHANGED expandedCardId

\* fetchPackages after its await, for the call i that resolved with result
FetchPackagesResume(i, result) ==
    /\ requests' = [requests EXCEPT ![i] = [@ EXCEPT !.status = "resolved",
                                                    !.result = result]]
    /\ IF result.success
       THEN /\ Render(result.packages, filterMode, filterSecondaryValue, searchQuery,
                      quickFilter, departureTimeRanges, returnTimeRanges)
            /\ UNCHANGED error
       ELSE /\ error' = (IF result.error \in {Undefined, ""} THEN "Gagal memuat data"
                         ELSE result.error)
            /\ Render(<<>>, filterMode, filterSecondaryValue, searchQuery,
                      quickFilter, departureTimeRanges, returnTimeRanges)
    /\ loading' = FALSE
    /\ UNCHANGED <<mounted, selectedYear, filterMode, filterSecondaryValue, searchQuery,
                   quickFilter, departureTimeRanges, returnTimeRanges>>
    /\ UNCHANGED expandedCardId

\* a pending call resolves and, having failed, is issued again at once
FetchResolvesAndRetries(i, reply) ==
    /\ i \in PendingRequests
    /\ Len(requests) < MaxRequests
    /\ LET result == getPackages(reply)
       IN  /\ requests' =
                  IF result.success
                  THEN [requests EXCEPT ![i] = [@ EXCEPT !.status = "resolved",
                                                         !.result = result]]
                  ELSE Append([requests EXCEPT ![i] = [@ EXCEPT !.status = "resolved",
                                                                !.result = result]],
                              [yearCode |-> requests[i].yearCode, status |-> "pending",
                               result |-> NoResult])
           /\ error' = (IF result.success THEN error ELSE result.error)
           /\ Render(result.packages, filterMode, filterSecondaryValue, searchQuery,
                     quickFilter, departureTimeRanges, returnTimeRanges)
           /\ loading' = ~result.success
    /\ UNCHANGED <<mounted, selectedYear, filterMode, filterSecondaryValue, searchQuery,
                   quickFilter, departureTimeRanges, returnTimeRanges>>
    /\ UNCHANGED expandedCardId

\* a pending call of App resolves with what getPackages makes of the server's reply
FetchResolves(i, reply) ==
    /\ i \in PendingRequests
    /\ FetchPackagesResume(i, getPackages(reply))

\* a mode change that leaves the secondary value as it was
handleFilterModeChangeKeepsSecondary(mode) ==
    /\ mounted
    /\ filterMode' = mode
    /\ Render(packages, mode, filterSecondaryValue, searchQuery, quickFilter,
              departureTimeRanges, returnTimeRanges)
    /\ UNCHANGED <<mounted, loading, error, selectedYear, filterSecondaryValue,
                   searchQuery, quickFilter, departureTimeRanges, returnTimeRanges,
                   requests>>
    /\ UNCHANGED expandedCardId

handleFilterModeChange(mode) ==
    /\ mounted
    /\ filterMode' = mode
    /\ filterSecondaryValue' = <<>>
    /\ Render(packages, mode, <<>>, searchQuery, quickFilter,
              departureTimeRanges, returnTimeRanges)
    /\ UNCHANGED <<mounted, loading, error, selectedYear, searchQuery, quickFilter,
                   departureTimeRanges, returnTimeRanges, requests>>
    /\ UNCHANGED expandedCardId

handleSecondaryValueChange(value) ==
    /\ mounted
    /\ filterSecondaryValue' = value
    /\ Render(packages, filterMode, value, searchQuery, quickFilter,
              departureTimeRanges, returnTimeRanges)
    /\ UNCHANGED <<mounted, loading, error, selectedYear, filterMode, searchQuery,
                   quickFilter, departureTimeRanges, returnTimeRanges, requests>>
    /\ UNCHANGED expandedCardId

\* FloatingControls onChange={setSearchQuery}
setSearchQuery(query) ==
    /\ mounted
    /\ searchQuery' = query
    /\ Render(packages, filterMode, filterSecondaryValue, query, quickFilter,
              departureTimeRanges, returnTimeRanges)
    /\ UNCHANGED <<mounted, loading, error, selectedYear, filterMode,
                   filterSecondaryValue, quickFilter, departureTimeRanges,
                   returnTimeRanges, requests>>
    /\ UNCHANGED expandedCardId

\* FilterModal handleSelectQuickFilter: a second tap on the selected filter clears it
handleSelectQuickFilter(id) ==
    /\ mounted
    /\ quickFilter' = (IF quickFilter = id THEN Null ELSE id)
    /\ Render(packages, filterMode, filterSecondaryValue, searchQuery,
              IF quickFilter = id THEN Null ELSE id,
              departureTimeRanges, returnTimeRanges)
    /\ UNCHANGED <<mounted, loading, error, selectedYear, filterMode,
                   filterSecondaryValue, searchQuery, departureTimeRanges,
                   returnTimeRanges, requests>>
    /\ UNCHANGED expandedCardId

\* FilterModal toggleRange
toggleRange(range, currentRanges) ==
    LET other(r) == r # range
    IN  IF \E i \in 1..Len(currentRanges) : currentRanges[i] = range
        THEN Filter(currentRanges, other)
        ELSE Append(currentRanges, range)

toggleDepartureRange(range) ==
    /\ mounted
    /\ departureTimeRanges' = toggleRange(range, departureTimeRanges)
    /\ Render(packages, filterMode, filterSecondaryValue, searchQuery, quickFilter,
              toggleRange(range, departureTimeRanges), returnTimeRanges)
    /\ UNCHANGED <<mounted, loading, error, selectedYear, filterMode,
                   filterSecondaryValue, searchQuery, quickFilter,
                   returnTimeRanges, requests>>
    /\ UNCHANGED expandedCardId

toggleReturnRange(range) ==
    /\ mounted
    /\ returnTimeRanges' = toggleRange(range, returnTimeRanges)
    /\ Render(packages, filterMode, filterSecondaryValue, searchQuery, quickFilter,
              departureTimeRanges, toggleRange(range, returnTimeRanges))
    /\ UNCHANGED <<mounted, loading, error, selectedYear, filterMode,
                   filterSecondaryValue, searchQuery, quickFilter,
                   departureTimeRanges, requests>>
    /\ UNCHANGED expandedCardId

\* a reset that would leave the text typed in the search box
handleResetFiltersKeepsSearch ==
    /\ mounted
    /\ filterMode' = "AVAILABLE"
    /\ filterSecondaryValue' = <<>>
    /\ quickFilter' = Null
    /\ departureTimeRanges' = <<>>
    /\ returnTimeRanges' = <<>>
    /\ Render(packages, "AVAILABLE", <<>>, searchQuery, Null, <<>>, <<>>)
    /\ UNCHANGED <<mounted, loading, error, selectedYear, searchQuery, requests>>
    /\ UNCHANGED expandedCardId

handleResetFilters ==
    /\ mounted
    /\ filterMode' = "AVAILABLE"
    /\ filterSecondaryValue' = <<>>
    /\ searchQuery' = <<>>
    /\ quickFilter' = Null
    /\ departureTimeRanges' = <<>>
    /\ returnTimeRanges' = <<>>
    /\ Render(packages, "AVAILABLE", <<>>, <<>>, Null, <<>>, <<>>)
    /\ UNCHANGED <<mounted, loading, error, selectedYear, requests>>
    /\ UNCHANGED expandedCardId

\* handleToggleCard, from the onToggle of a card of the list, which is rendered
\* when !loading && !error
handleToggleCard(id) ==
    /\ mounted
    /\ ~loading /\ error = Null
    /\ \E i \in 1..Len(filteredPackages) : filteredPackages[i].jadwalId = id
    /\ expandedCardId' = (IF expandedCardId = id THEN Null ELSE id)
    /\ UNCHANGED <<mounted, packages, loading, error, selectedYear, filterMode,
                   filterSecondaryValue, searchQuery, quickFilter, departureTimeRanges,
                   returnTimeRanges, filteredPackages, requests>>

InitApp ==
    /\ mounted = FALSE
    /\ packages = <<>>
    /\ loading = TRUE
    /\ error = Null
    /\ selectedYear = "1448"
    /\ filterMode = "AVAILABLE"
    /\ filterSecondaryValue = <<>>
    /\ searchQuery = <<>>
    /\ expandedCardId = Null
    /\ quickFilter = Null
    /\ departureTimeRanges = <<>>
    /\ returnTimeRanges = <<>>
    /\ filteredPackages = <<>>
    /\ requests = <<>>

InitGet ==
    /\ gpPhase = "idle"
    /\ gpClock = 0
    /\ gpTimeout = DefaultTimeoutMs
    /\ gpTimerArmed = FALSE
    /\ gpSignalAborted = FALSE
    /\ gpResponse = <<>>
    /\ gpBody = NoBody
    /\ gpResult = NoResult

\* a header that is not set
Absent == "(absent)"
NoHeaders ==
    [contentType |-> Absent, allowOrigin |-> Absent, allowMethods |-> Absent,
     allowHeaders |-> Absent, cacheControl |-> Absent, maxAge |-> Absent]
NoRequest == [method |-> "GET", hasUrl |-> FALSE]
NoResponse == [status |-> 0, headers |-> NoHeaders, body |-> "none"]

InitProxy ==
    /\ pxProxy = "api"
    /\ pxRequest = NoRequest
    /\ pxPhase = "idle"
    /\ pxFetches = 0
    /\ pxUpstream = <<>>
    /\ pxBody = "none"
    /\ pxResponse = NoResponse

InitMeta ==
    /\ mwPhase = "idle"
    /\ mwPath = <<"/">>
    /\ mwUpstream = <<>>
    /\ mwResponse = <<>>

NoCall == [name |-> "none"]
InitShare ==
    /\ isSharing = [modal \in {"brochure", "itinerary"} |-> FALSE]
    /\ shPhase = "idle"
    /\ shRuns = <<>>

InnerHeight == 20

ScrollHeights == {60, 80}

InitScroll ==
    /\ scrollY = 0
    /\ scrollHeight = 60
    /\ isVisible = TRUE
    /\ lastScrollY = 0
    /\ listenerLastScrollY = 0
    /\ recordedBefore = <<>>

InitUtil ==
    /\ timeZone = "Asia/Jakarta"
    /\ fnData = <<>>
    /\ fnCall = NoCall
    /\ fnResult = <<>>

Init == InitApp /\ InitGet /\ InitProxy /\ InitMeta /\ InitUtil /\ InitShare /\ InitScroll

Next ==
    \/ Mount /\ UNCHANGED <<getVars, proxyVars, metaVars, utilVars, shareVars, scrollVars>>
    \/ \E year \in AvailableYears \ {selectedYear} : handleYearChange(year) /\ UNCHANGED <<getVars, proxyVars, metaVars, utilVars, shareVars, scrollVars>>
    \/ RetryClick /\ UNCHANGED <<getVars, proxyVars, metaVars, utilVars, shareVars, scrollVars>>
    \/ \E i \in 1..Len(requests) : \E reply \in ServerReplies(requests[i].yearCode) :
           FetchResolves(i, reply) /\ UNCHANGED <<getVars, proxyVars, metaVars, utilVars, shareVars, scrollVars>>
    \/ \E mode \in FilterModes \ {filterMode} :
           handleFilterModeChange(mode) /\ UNCHANGED <<getVars, proxyVars, metaVars, utilVars, shareVars, scrollVars>>
    \/ \E value \in SecondaryChoices(filterMode) \ {filterSecondaryValue} :
           handleSecondaryValueChange(value) /\ UNCHANGED <<getVars, proxyVars, metaVars, utilVars, shareVars, scrollVars>>
    \/ \E query \in SearchQueries \ {searchQuery} : setSearchQuery(query) /\ UNCHANGED <<getVars, proxyVars, metaVars, utilVars, shareVars, scrollVars>>
    \/ \E id \in QuickFilterChoices : handleSelectQuickFilter(id) /\ UNCHANGED <<getVars, proxyVars, metaVars, utilVars, shareVars, scrollVars>>
    \/ \E range \in TimeRangeChoices : toggleDepartureRange(range) /\ UNCHANGED <<getVars, proxyVars, metaVars, utilVars, shareVars, scrollVars>>
    \/ \E range \in TimeRangeChoices : toggleReturnRange(range) /\ UNCHANGED <<getVars, proxyVars, metaVars, utilVars, shareVars, scrollVars>>
    \/ handleResetFilters /\ UNCHANGED <<getVars, proxyVars, metaVars, utilVars, shareVars, scrollVars>>

Spec == Init /\ [][Next]_vars

(***************************************************************************)
(* App with its list of cards (SpecCards): the filters a user sets and     *)
(* resets, the cards they expand, and a server that may list a schedule    *)
(* twice.                                                                  *)
(***************************************************************************)
CardFilterModes == {"AVAILABLE", "SEMUA DATA"}

NextCards ==
    \/ Mount /\ UNCHANGED <<getVars, proxyVars, metaVars, utilVars, shareVars, scrollVars>>
    \/ \E year \in AvailableYears \ {selectedYear} : handleYearChange(year) /\ UNCHANGED <<getVars, proxyVars, metaVars, utilVars, shareVars, scrollVars>>
    \/ \E i \in 1..Len(requests) : \E reply \in CardReplies(requests[i].yearCode) :
           FetchResolves(i, reply) /\ UNCHANGED <<getVars, proxyVars, metaVars, utilVars, shareVars, scrollVars>>
    \/ \E i \in 1..Len(filteredPackages) :
           handleToggleCard(filteredPackages[i].jadwalId) /\ UNCHANGED <<getVars, proxyVars, metaVars, utilVars, shareVars, scrollVars>>
    \/ \E mode \in CardFilterModes \ {filterMode} :
           handleFilterModeChange(mode) /\ UNCHANGED <<getVars, proxyVars, metaVars, utilVars, shareVars, scrollVars>>
    \/ \E query \in SearchQueries \ {searchQuery} : setSearchQuery(query) /\ UNCHANGED <<getVars, proxyVars, metaVars, utilVars, shareVars, scrollVars>>
    \/ \E id \in QuickFilterChoices : handleSelectQuickFilter(id) /\ UNCHANGED <<getVars, proxyVars, metaVars, utilVars, shareVars, scrollVars>>
    \/ \E range \in TimeRangeChoices : toggleDepartureRange(range) /\ UNCHANGED <<getVars, proxyVars, metaVars, utilVars, shareVars, scrollVars>>
    \/ \E range \in TimeRangeChoices : toggleReturnRange(range) /\ UNCHANGED <<getVars, proxyVars, metaVars, utilVars, shareVars, scrollVars>>
    \/ handleResetFilters /\ UNCHANGED <<getVars, proxyVars, metaVars, utilVars, shareVars, scrollVars>>

SpecCards == Init /\ [][NextCards]_vars

(***************************************************************************)
(* One call of getPackages against the clock (SpecGet).  A timer that is   *)
(* due runs before time moves on.                                          *)
(***************************************************************************)
\* the timeouts a caller passes, and what the server may send
TimeoutChoices == {TickMs, DefaultTimeoutMs}
HttpStatuses == {200, 404, 500}
Bodies ==
    {JsonBody(st, aa, Len(aa)) : st \in {"ok", "error"},
                                 aa \in {<<>>, <<Raw2>>, <<Raw1, Raw3>>, <<Raw2, RawNoHotel>>}}
        \cup {HtmlBody, BrokenBody}

TimerDue == gpTimerArmed /\ gpClock * TickMs >= gpTimeout

\* the call up to "await fetch": the controller, the timer, the request
GetPackagesCall(timeout) ==
    /\ gpPhase = "idle"
    /\ gpPhase' = "fetching"
    /\ gpTimeout' = timeout
    /\ gpTimerArmed' = TRUE
    /\ UNCHANGED <<gpClock, gpSignalAborted, gpResponse, gpBody, gpResult>>

Tick ==
    /\ gpPhase # "idle"
    /\ gpClock < MaxTicks
    /\ ~TimerDue
    /\ gpClock' = gpClock + 1
    /\ UNCHANGED <<gpPhase, gpTimeout, gpTimerArmed, gpSignalAborted, gpResponse, gpBody,
                   gpResult>>

\* the timer callback: controller.abort(); a pending fetch or body read rejects
\* with an AbortError, which the catch block turns into the result
TimerFires ==
    /\ TimerDue
    /\ gpTimerArmed' = FALSE
    /\ gpSignalAborted' = TRUE
    /\ IF gpPhase \in {"fetching", "reading"}
       THEN gpPhase' = "resolved" /\ gpResult' = Caught(AbortError)
       ELSE UNCHANGED <<gpPhase, gpResult>>
    /\ UNCHANGED <<gpClock, gpTimeout, gpResponse, gpBody>>

\* fetch rejects (no connection): the catch block, with the timer left armed
FetchRejects ==
    /\ gpPhase = "fetching"
    /\ gpPhase' = "resolved"
    /\ gpResult' = Caught(FetchFailedError)
    /\ UNCHANGED <<gpClock, gpTimeout, gpTimerArmed, gpSignalAborted, gpResponse, gpBody>>

\* fetch resolves with the headers: clearTimeout, then the response.ok check
HeadersArrive(status) ==
    /\ gpPhase = "fetching"
    /\ gpTimerArmed' = FALSE
    /\ gpResponse' = <<status>>
    /\ IF ThrownOnHeaders(status) # <<>>
       THEN gpPhase' = "resolved" /\ gpResult' = Caught(ThrownOnHeaders(status)[1])
       ELSE gpPhase' = "reading" /\ UNCHANGED gpResult
    /\ UNCHANGED <<gpClock, gpTimeout, gpSignalAborted, gpBody>>

\* response.json() settles: the status check, the transformation, the return
BodyArrives(body) ==
    /\ gpPhase = "reading"
    /\ gpBody' = body
    /\ gpPhase' = "resolved"
    /\ gpResult' = (IF ThrownOnBody(body) # <<>> THEN Caught(ThrownOnBody(body)[1])
                    ELSE ReturnedForBody(body))
    /\ UNCHANGED <<gpClock, gpTimeout, gpTimerArmed, gpSignalAborted, gpResponse>>

NextGet ==
    \/ \E timeout \in TimeoutChoices : GetPackagesCall(timeout) /\ UNCHANGED <<appVars, proxyVars, metaVars, utilVars, shareVars, scrollVars>>
    \/ Tick /\ UNCHANGED <<appVars, proxyVars, metaVars, utilVars, shareVars, scrollVars>>
    \/ TimerFires /\ UNCHANGED <<appVars, proxyVars, metaVars, utilVars, shareVars, scrollVars>>
    \/ FetchRejects /\ UNCHANGED <<appVars, proxyVars, metaVars, utilVars, shareVars, scrollVars>>
    \/ \E status \in HttpStatuses : HeadersArrive(status) /\ UNCHANGED <<appVars, proxyVars, metaVars, utilVars, shareVars, scrollVars>>
    \/ \E body \in Bodies : BodyArrives(body) /\ UNCHANGED <<appVars, proxyVars, metaVars, utilVars, shareVars, scrollVars>>

SpecGet == Init /\ [][NextGet]_vars

(***************************************************************************)
(* The edge-function proxies (SpecProxy): functions/api/[[path]].js and    *)
(* the two handlers of functions/brosur.js.                                *)
(***************************************************************************)
Proxies == {"api", "brosurUrl", "brosurPath"}
Methods == {"GET", "POST", "OPTIONS"}
UpstreamStatuses == {200, 201, 204, 404, 500}
UpstreamContentTypes == {Absent, "image/png"}
UpstreamAllowOrigins == {Absent, "https://jadwal.miqot.com"}

\* the statuses a response with a body cannot have
NullBodyStatuses == {101, 204, 205, 304}

\* new Response(body, {status}) with a body that is not null: at a null body
\* status the constructor throws, except that a runtime may let an empty body pass
ResponseConstructorMayThrow(status, bodyKind) ==
    status \in NullBodyStatuses /\ bodyKind \in {"text", "buffer"}
ResponseConstructorMayReturn(status, bodyKind, bodyEmpty) ==
    ~ResponseConstructorMayThrow(status, bodyKind) \/ bodyEmpty

\* onRequestOptions of the /api/* proxy
ApiOptionsResponse ==
    [status |-> 204,
     headers |-> [NoHeaders EXCEPT !.allowOrigin = "*",
                                   !.allowMethods = "GET, POST, OPTIONS",
                                   !.allowHeaders = "Content-Type",
                                   !.maxAge = "86400"],
     body |-> "null"]
\* onRequestOptions of the /brosur?url= proxy
BrosurOptionsResponse ==
    [status |-> 204,
     headers |-> [NoHeaders EXCEPT !.allowOrigin = "*",
                                   !.allowMethods = "GET, OPTIONS",
                                   !.allowHeaders = "Content-Type",
                                   !.maxAge = "86400"],
     body |-> "null"]
\* the 400 of the /brosur?url= proxy
MissingUrlResponse ==
    [status |-> 400, headers |-> [NoHeaders EXCEPT !.contentType = "application/json"],
     body |-> "text"]
\* the catch blocks
ProxyErrorResponse(proxy) ==
    IF proxy = "brosurPath"
    THEN [status |-> 502, headers |-> [NoHeaders EXCEPT !.contentType = "text/plain;charset=UTF-8"],
          body |-> "text"]
    ELSE [status |-> 500,
          headers |-> [NoHeaders EXCEPT !.contentType = "application/json",
                                        !.allowOrigin = "*"],
          body |-> "text"]
\* a forwarder that would answer 200 whatever the upstream status
ApiSuccessResponseAlways200(upstream) ==
    [status |-> 200, headers |-> NoHeaders, body |-> "text"]

\* the responses of the try blocks
ApiSuccessResponse(upstream) ==
    [status |-> upstream.status,
     headers |-> [NoHeaders EXCEPT !.contentType = "application/json",
                                   !.allowOrigin = "*",
                                   !.allowMethods = "GET, POST, OPTIONS",
                                   !.allowHeaders = "Content-Type",
                                   !.cacheControl = "public, max-age=60"],
     body |-> "text"]
BrosurUrlSuccessResponse(upstream) ==
    [status |-> 200,
     headers |-> [NoHeaders EXCEPT !.contentType =
                                       (IF upstream.headers.contentType \in {Absent, ""}
                                        THEN "image/webp"
                                        ELSE upstream.headers.contentType),
                                   !.allowOrigin = "*",
                                   !.allowMethods = "GET, OPTIONS",
                                   !.cacheControl = "public, max-age=3600"],
     body |-> "buffer"]
BrosurPathHeaders(upstream) ==
    [upstream.headers EXCEPT !.allowOrigin = "*",
                             !.allowMethods = "GET, OPTIONS",
                             !.allowHeaders = "*"]
BrosurPathResponse(request, upstream) ==
    IF request.method = "OPTIONS"
    THEN [status |-> 204, headers |-> BrosurPathHeaders(upstream), body |-> "null"]
    ELSE [status |-> upstream.status, headers |-> BrosurPathHeaders(upstream),
          body |-> IF upstream.status \in NullBodyStatuses THEN "null" ELSE "stream"]

\* a request arrives (each invocation starts afresh): the handler runs up to
\* its first await, or to its return
ProxyReceives(proxy, request) ==
    /\ pxPhase \in {"idle", "responded"}
    /\ pxProxy' = proxy
    /\ pxRequest' = request
    /\ pxUpstream' = <<>>
    /\ pxBody' = "none"
    /\ IF proxy = "api" /\ request.method = "OPTIONS"
       THEN pxPhase' = "responded" /\ pxResponse' = ApiOptionsResponse
                                   /\ pxFetches' = 0
       ELSE IF proxy = "brosurUrl" /\ request.method = "OPTIONS"
       THEN pxPhase' = "responded" /\ pxResponse' = BrosurOptionsResponse
                                   /\ pxFetches' = 0
       ELSE IF proxy = "brosurUrl" /\ ~request.hasUrl
       THEN pxPhase' = "responded" /\ pxResponse' = MissingUrlResponse
                                   /\ pxFetches' = 0
       ELSE pxPhase' = "fetching" /\ pxFetches' = 1
                                  /\ pxResponse' = NoResponse

\* a catch block that would fetch again
UpstreamFailsAndRetries ==
    /\ pxPhase = "fetching"
    /\ pxFetches < MaxFetches
    /\ pxFetches' = pxFetches + 1
    /\ UNCHANGED <<pxProxy, pxRequest, pxPhase, pxUpstream, pxBody, pxResponse>>

\* the upstream fetch rejects: the catch block answers
UpstreamFails ==
    /\ pxPhase = "fetching"
    /\ pxPhase' = "responded"
    /\ pxResponse' = ProxyErrorResponse(pxProxy)
    /\ UNCHANGED <<pxProxy, pxRequest, pxFetches, pxUpstream, pxBody>>

\* the upstream fetch resolves with a response (its headers)
UpstreamResponds(upstream) ==
    /\ pxPhase = "fetching"
    /\ pxUpstream' = <<upstream>>
    /\ IF pxProxy = "brosurPath"
       THEN pxPhase' = "responded" /\ pxResponse' = BrosurPathResponse(pxRequest, upstream)
       ELSE IF pxProxy = "brosurUrl" /\ ~ResponseOk(upstream.status)
       THEN pxPhase' = "responded" /\ pxResponse' = ProxyErrorResponse(pxProxy)
       ELSE pxPhase' = "reading" /\ UNCHANGED pxResponse
    /\ UNCHANGED <<pxProxy, pxRequest, pxFetches, pxBody>>

\* response.text() / response.arrayBuffer() rejects: the catch block answers
UpstreamBodyFails ==
    /\ pxPhase = "reading"
    /\ pxPhase' = "responded"
    /\ pxResponse' = ProxyErrorResponse(pxProxy)
    /\ pxBody' = "failed"
    /\ UNCHANGED <<pxProxy, pxRequest, pxFetches, pxUpstream>>

\* the body is read and the response is built
UpstreamBodyRead ==
    /\ pxPhase = "reading"
    /\ pxPhase' = "responded"
    /\ LET upstream == pxUpstream[1]
           built == IF pxProxy = "api" THEN ApiSuccessResponse(upstream)
                    ELSE BrosurUrlSuccessResponse(upstream)
           empty == upstream.status \in NullBodyStatuses
       IN  \/ /\ ResponseConstructorMayReturn(built.status, built.body, empty)
              /\ pxResponse' = built
           \/ /\ ResponseConstructorMayThrow(built.status, built.body)
              /\ pxResponse' = ProxyErrorResponse(pxProxy)
    /\ pxBody' = "read"
    /\ UNCHANGED <<pxProxy, pxRequest, pxFetches, pxUpstream>>

NextProxy ==
    \/ \E proxy \in Proxies : \E method \in Methods : \E hasUrl \in BOOLEAN :
           /\ ProxyReceives(proxy, [method |-> method, hasUrl |-> hasUrl])
           /\ UNCHANGED <<appVars, getVars, metaVars, utilVars, shareVars, scrollVars>>
    \/ UpstreamFails /\ UNCHANGED <<appVars, getVars, metaVars, utilVars, shareVars, scrollVars>>
    \/ \E status \in UpstreamStatuses : \E ct \in UpstreamContentTypes :
         \E ao \in UpstreamAllowOrigins :
           /\ UpstreamResponds([status |-> status,
                                headers |-> [NoHeaders EXCEPT !.contentType = ct,
                                                              !.allowOrigin = ao]])
           /\ UNCHANGED <<appVars, getVars, metaVars, utilVars, shareVars, scrollVars>>
    \/ UpstreamBodyFails /\ UNCHANGED <<appVars, getVars, metaVars, utilVars, shareVars, scrollVars>>
    \/ UpstreamBodyRead /\ UNCHANGED <<appVars, getVars, metaVars, utilVars, shareVars, scrollVars>>

SpecProxy == Init /\ [][NextProxy]_vars

(***************************************************************************)
(* The meta-tag middleware (SpecMeta): onRequest of the Pages middleware,  *)
(* and the agent table of src/data/agents.ts.  An HTML document is a       *)
(* sequence of tags; a tag has a name and the texts it carries.            *)
(***************************************************************************)
\* src/data/agents.ts (the name is the only field the middleware's copy shares)
AGENTS_DATA ==
    (<<"b", "a", "g", "a", "s">> :> [name |-> <<"B", "a", "g", "a", "s", " ", "P", "r", "a", "m", "u", "d", "i", "t", "a">>]) @@
    (<<"n", "i", "l", "a">> :> [name |-> <<"N", "i", "l", "a", " ", "N", "o", "v", "i", "t", "a", " ", "S", "a", "r", "i", " ">>]) @@
    (<<"a", "n", "d", "r", "a">> :> [name |-> <<"A", "n", "d", "r", "a", " ", "O", "l", "i", "v", "i", "a">>]) @@
    (<<"d", "y", "a", "h">> :> [name |-> <<"D", "y", "a", "h", " ", "R", "a", "t", "n", "a", " ", "W", "i", "t", "r", "i">>]) @@
    (<<"w", "i", "d", "i">> :> [name |-> <<"W", "i", "d", "i", " ", "P", "u", "r", "w", "a", "n", "t", "i">>]) @@
    (<<"a", "u", "l", "i", "a">> :> [name |-> <<"L", "e", "n", "i", " ", "A", "u", "l", "i", "a", "n", "i", "n", "g", "s", "i", "h">>])

\* the middleware's own table
AGENTS ==
    (<<"b", "a", "g", "a", "s">> :> [name |-> <<"B", "a", "g", "a", "s", " ", "P", "r", "a", "m", "u", "d", "i", "t", "a">>]) @@
    (<<"n", "i", "l", "a">> :> [name |-> <<"N", "i", "l", "a", " ", "N", "o", "v", "i", "t", "a", " ", "S", "a", "r", "i">>])

\* members every object literal inherits from Object.prototype, with their .name
ObjectPrototype ==
    (<<"c", "o", "n", "s", "t", "r", "u", "c", "t", "o", "r">> :> [name |-> <<"O", "b", "j", "e", "c", "t">>]) @@
    (<<"t", "o", "S", "t", "r", "i", "n", "g">> :> [name |-> <<"t", "o", "S", "t", "r", "i", "n", "g">>])

\* AGENTS[slug]: <<the value>>, or <<>> for undefined
AgentsLookup(slug) ==
    IF slug \in DOMAIN AGENTS THEN <<AGENTS[slug]>>
    ELSE IF slug \in DOMAIN ObjectPrototype THEN <<ObjectPrototype[slug]>>
    ELSE <<>>

\* pathname.replace(/^\/+/, '')
RECURSIVE StripLeadingSlashes(_)
StripLeadingSlashes(s) ==
    IF s # <<>> /\ Head(s) = "/" THEN StripLeadingSlashes(Tail(s)) ELSE s

\* url.pathname.replace(/^\/+/, '').split('/')[0].toLowerCase()
SlugOf(pathname) == ToLowerCase(SplitLiteral(StripLeadingSlashes(pathname), <<"/">>)[1])

Tag(tag) == [tag |-> tag, text |-> <<>>, description |-> <<>>, url |-> <<>>]
TitleTag(tag, text) == [Tag(tag) EXCEPT !.text = text]
DescriptionTag(text) == [Tag("<meta name=description>") EXCEPT !.description = text]

NewTitle(agent) == <<"J", "a", "d", "w", "a", "l", " ", "U", "m", "r", "o", "h", " ", "A", "l", "h", "i", "j", "a", "z", " ", "|", " ">> \o agent.name
NewDescription(agent) ==
    <<"D", "a", "p", "a", "t", "k", "a", "n", " ", "i", "n", "f", "o", " ", "l", "e", "n", "g", "k", "a", "p", " ", "p", "a", "k", "e", "t", " ", "u", "m", "r", "a", "h", " ", "A", "l", "h", "i", "j", "a", "z", " ", "I", "n", "d", "o", "w", "i", "s", "a", "t", "a", " ", "b", "e", "r", "s", "a", "m", "a", " ">> \o agent.name
        \o <<".", " ", "K", "l", "i", "k", " ", "u", "n", "t", "u", "k", " ", "k", "o", "n", "s", "u", "l", "t", "a", "s", "i", " ", "v", "i", "a", " ", "W", "h", "a", "t", "s", "A", "p", "p", ".">>
\* the five og: tags of the template, one block
OgTags(agent, pageUrl) ==
    [tag |-> "og-tags", text |-> NewTitle(agent), description |-> NewDescription(agent),
     url |-> pageUrl]

\* /<title>[^<]*<\/title>/i
TitleRegexMatches(t) == t.tag \in {"<title>", "<TITLE>"}
\* /<meta\s+name="description"\s+content="[^"]*"\s*\/?>/i
DescriptionRegexMatches(t) == t.tag = "<meta name=description>"
\* the string '</head>'
HeadCloseMatches(t) == t.tag = "</head>"

\* String.prototype.replace replaces the first match only
ReplaceTitle(html, newTitle) ==
    IF \E i \in 1..Len(html) : TitleRegexMatches(html[i])
    THEN LET i == CHOOSE k \in 1..Len(html) :
                      /\ TitleRegexMatches(html[k])
                      /\ \A j \in 1..(k - 1) : ~TitleRegexMatches(html[j])
         IN  [html EXCEPT ![i] = TitleTag("<title>", newTitle)]
    ELSE html
ReplaceDescription(html, newDescription) ==
    IF \E i \in 1..Len(html) : DescriptionRegexMatches(html[i])
    THEN LET i == CHOOSE k \in 1..Len(html) :
                      /\ DescriptionRegexMatches(html[k])
                      /\ \A j \in 1..(k - 1) : ~DescriptionRegexMatches(html[j])
         IN  [html EXCEPT ![i] = DescriptionTag(newDescription)]
    ELSE html
InsertOgTags(html, ogTags) ==
    IF \E i \in 1..Len(html) : HeadCloseMatches(html[i])
    THEN LET i == CHOOSE k \in 1..Len(html) :
                      /\ HeadCloseMatches(html[k])
                      /\ \A j \in 1..(k - 1) : ~HeadCloseMatches(html[j])
         IN  SubSeq(html, 1, i - 1) \o <<ogTags>> \o SubSeq(html, i, Len(html))
    ELSE html

\* the body of the handler after response.text()
RewriteHtml(html, agent, pageUrl) ==
    InsertOgTags(ReplaceDescription(ReplaceTitle(html, NewTitle(agent)), NewDescription(agent)),
                 OgTags(agent, pageUrl))

\* response.headers.get('content-type') || ''
ContentTypeOf(response) ==
    IF response.contentType = <<>> THEN <<>> ELSE response.contentType[1]
IsHtmlResponse(response) == Includes(ContentTypeOf(response), <<"t", "e", "x", "t", "/", "h", "t", "m", "l">>)

\* the documents, paths and responses tried
IndexHtml ==
    <<Tag("<head>"), TitleTag("<title>", <<"J", "a", "d", "w", "a", "l", " ", "U", "m", "r", "o", "h">>), DescriptionTag(<<"J", "a", "d", "w", "a", "l">>),
      Tag("</head>"), Tag("<body>")>>
UpperCaseHtml ==
    <<Tag("<HEAD>"), TitleTag("<TITLE>", <<"J", "a", "d", "w", "a", "l", " ", "U", "m", "r", "o", "h">>), Tag("</HEAD>"), Tag("<body>")>>
NoTitleHtml ==
    <<Tag("<head>"), DescriptionTag(<<"J", "a", "d", "w", "a", "l">>), Tag("</head>"), Tag("<body>")>>
TwoTitlesHtml ==
    <<Tag("<head>"), TitleTag("<title>", <<"J", "a", "d", "w", "a", "l", " ", "U", "m", "r", "o", "h">>), Tag("</head>"), Tag("<body>"),
      TitleTag("<title>", <<"l", "o", "g", "o">>)>>
Documents == {IndexHtml, UpperCaseHtml, NoTitleHtml, TwoTitlesHtml}
Pathnames ==
    {<<"/">>, <<"/", "b", "a", "g", "a", "s">>, <<"/", "B", "A", "G", "A", "S">>, <<"/", "/", "N", "i", "l", "a", "/", "x">>, <<"/", "a", "n", "d", "r", "a">>, <<"/", "A", "u", "l", "i", "a">>, <<"/", "c", "o", "n", "s", "t", "r", "u", "c", "t", "o", "r">>,
     <<"/", "a", "s", "s", "e", "t", "s", "/", "a", "p", "p", ".", "j", "s">>}
ContentTypes == {<<>>, <<<<"t", "e", "x", "t", "/", "h", "t", "m", "l", ";", " ", "c", "h", "a", "r", "s", "e", "t", "=", "u", "t", "f", "-", "8">>>>, <<<<"t", "e", "x", "t", "/", "j", "a", "v", "a", "s", "c", "r", "i", "p", "t">>>>}
PageStatuses == {200, 404}

\* a request enters the middleware, which awaits context.next()
MiddlewareReceives(pathname) ==
    /\ mwPhase \in {"idle", "responded", "threw"}
    /\ mwPhase' = "awaitingNext"
    /\ mwPath' = pathname
    /\ mwUpstream' = <<>>
    /\ mwResponse' = <<>>

\* context.next() resolves: the handler runs to a return or to its await of text()
NextResolves(response) ==
    /\ mwPhase = "awaitingNext"
    /\ mwUpstream' = <<response>>
    /\ IF ~IsHtmlResponse(response) \/ AgentsLookup(SlugOf(mwPath)) = <<>>
       THEN mwPhase' = "responded" /\ mwResponse' = <<response>>
       ELSE mwPhase' = "readingText" /\ UNCHANGED mwResponse
    /\ UNCHANGED mwPath

\* response.text() resolves: the rewritten document is returned
TextRead ==
    /\ mwPhase = "readingText"
    /\ mwPhase' = "responded"
    /\ LET response == mwUpstream[1]
           agent == AgentsLookup(SlugOf(mwPath))[1]
       IN  mwResponse' = <<[response EXCEPT !.html = RewriteHtml(response.html, agent, mwPath)]>>
    /\ UNCHANGED <<mwPath, mwUpstream>>

\* response.text() rejects: nothing catches it
TextFails ==
    /\ mwPhase = "readingText"
    /\ mwPhase' = "threw"
    /\ UNCHANGED <<mwPath, mwUpstream, mwResponse>>

NextMeta ==
    \/ \E pathname \in Pathnames :
           MiddlewareReceives(pathname) /\ UNCHANGED <<appVars, getVars, proxyVars, utilVars, shareVars, scrollVars>>
    \/ \E status \in PageStatuses : \E ct \in ContentTypes : \E html \in Documents :
           /\ NextResolves([status |-> status, contentType |-> ct, html |-> html])
           /\ UNCHANGED <<appVars, getVars, proxyVars, utilVars, shareVars, scrollVars>>
    \/ TextRead /\ UNCHANGED <<appVars, getVars, proxyVars, utilVars, shareVars, scrollVars>>
    \/ TextFails /\ UNCHANGED <<appVars, getVars, proxyVars, utilVars, shareVars, scrollVars>>

SpecMeta == Init /\ [][NextMeta]_vars

(***************************************************************************)
(* The functions of utils/filterLogic, one call at a time (SpecUtil): the  *)
(* array and the time zone are drawn at the start, an action is one call.  *)
(***************************************************************************)
PackageUniverse == {transformPackage(raw) : raw \in {Raw1, Raw2, Raw3, Raw5}}
Inputs == UNION {[1..n -> PackageUniverse] : n \in 0..MaxLen}

\* the secondary values tried: none, a city code, a city name, a month key
SecondaryValues == {<<>>, <<"j", "e", "d">>, <<"M", "a", "d", "i", "n", "a", "h">>, <<"2", "0", "2", "6", "-", "0", "6">>}

CallFilterPackages(mode, secondaryValue) ==
    /\ fnCall = NoCall
    /\ fnCall' = [name |-> "filterPackages", mode |-> mode, secondaryValue |-> secondaryValue]
    /\ fnResult' = filterPackages(fnData, [mode |-> mode, secondaryValue |-> secondaryValue])
    /\ UNCHANGED <<fnData, timeZone>>

\* getMinPrice: the loop over the tiers and, in each, over the truthy (non-empty)
\* strings among Double, Triple, Quard; a NaN never replaces the minimum
getMinPrice(pkg) ==
    CHOOSE r \in {LET prices[t \in 0..Len(harga)] ==
                          IF t = 0 THEN <<>>
                          ELSE prices[t - 1] \o SelectSeq(<<harga[t].Double, harga[t].Triple,
                                                            harga[t].Quard>>,
                                                          LAMBDA p : p # <<>>)
                      all == prices[Len(harga)]
                      minPrice[k \in 0..Len(all)] ==
                          IF k = 0 THEN Infinity
                          ELSE LET numPrice == ParseInt(all[k])
                               IN  IF numPrice # NaN /\ numPrice < minPrice[k - 1]
                                   THEN numPrice ELSE minPrice[k - 1]
                  IN  IF minPrice[Len(all)] = Infinity THEN 0 ELSE minPrice[Len(all)] :
                  harga \in {pkg.harga}} : TRUE

\* 1. the mode filter, on the copy of data
AdvancedModeStep(data, options) ==
    IF options.mode # Undefined /\ options.mode # "SEMUA DATA"
    THEN filterPackages(data, [mode |-> options.mode, secondaryValue |-> options.secondaryValue])
    ELSE data

\* 2. the search query
AdvancedSearchStep(result, options) ==
    LET query == Trim(ToLowerCase(options.searchQuery))
        match(pkg) ==
            \/ Includes(ToLowerCase(pkg.nama), query)
            \/ Includes(pkg.keberangkatan.tgl, query)
            \/ Includes(pkg.kepulangan.tgl, query)
            \/ Includes(ToLowerCase(pkg.maskapai), query)
    IN  IF options.searchQuery # Undefined /\ Trim(options.searchQuery) # <<>>
        THEN Filter(result, match)
        ELSE result

\* 3. the sort
AdvancedSortStep(result, options) ==
    LET getTime(pkg) == DateTime(pkg.keberangkatan.tgl)
        byDateAsc(a, b) == Minus(getTime(a), getTime(b))
        byDateDesc(a, b) == Minus(getTime(b), getTime(a))
        byPriceAsc(a, b) == Minus(getMinPrice(a), getMinPrice(b))
        byPriceDesc(a, b) == Minus(getMinPrice(b), getMinPrice(a))
    IN  CASE options.sortBy = "date_asc" -> Sort(result, byDateAsc)
          [] options.sortBy = "date_desc" -> Sort(result, byDateDesc)
          [] options.sortBy = "price_asc" -> Sort(result, byPriceAsc)
          [] options.sortBy = "price_desc" -> Sort(result, byPriceDesc)
          [] OTHER -> result

\* were result to start as data itself, the sort would work on the caller's
\* array whenever neither step before it builds a new one
AdvancedSortsDataWithoutCopy(options) ==
    /\ \/ options.mode = Undefined
       \/ filterPackagesReturnsData([mode |-> options.mode,
                                     secondaryValue |-> options.secondaryValue])
    /\ options.searchQuery = Undefined \/ Trim(options.searchQuery) = <<>>

\* whether the array sorted in place at the end is the caller's array: never,
\* as result starts as the copy [...data]
AdvancedSortsData(options) == FALSE

\* the value returned and the caller's array after the call
filterPackagesAdvanced(data, options) ==
    CHOOSE r \in {[result |-> sorted,
                   data |-> IF AdvancedSortsData(options) THEN sorted ELSE data] :
                  sorted \in {AdvancedSortStep(AdvancedSearchStep(AdvancedModeStep(data, options),
                                                                  options), options)}} : TRUE

AdvancedModes == {Undefined, "AVAILABLE", "LANDING", "DATA PER-BULAN", "SEMUA DATA"}
AdvancedQueries == {Undefined, <<" ", "S", "A", "U", "D", "I", "A", " ">>, <<"2", "0", "2", "6", "-", "0", "6">>}
SortOrders == {Undefined, "date_asc", "date_desc", "price_asc", "price_desc"}

CallFilterPackagesAdvanced(options) ==
    /\ fnCall = NoCall
    /\ fnCall' = [name |-> "filterPackagesAdvanced", options |-> options, data |-> fnData]
    /\ fnResult' = filterPackagesAdvanced(fnData, options).result
    /\ fnData' = filterPackagesAdvanced(fnData, options).data
    /\ UNCHANGED timeZone

MONTH_NAMES_ID == MonthNamesLocale
HIJRI_MONTH_NAMES ==
    <<<<"M", "u", "h", "a", "r", "r", "a", "m">>, <<"S", "a", "f", "a", "r">>, <<"R", "a", "b", "i", "u", "l", " ", "A", "w", "a", "l">>, <<"R", "a", "b", "i", "u", "l", " ", "A", "k", "h", "i", "r">>, <<"J", "u", "m", "a", "d", "i", "l", " ", "A", "w", "a", "l">>, <<"J", "u", "m", "a", "d", "i", "l", " ", "A", "k", "h", "i", "r">>,
      <<"R", "a", "j", "a", "b">>, <<"S", "y", "a", "b", "a", "n">>, <<"R", "a", "m", "a", "d", "h", "a", "n">>, <<"S", "y", "a", "w", "a", "l">>, <<"D", "z", "u", "l", "q", "a", "i", "d", "a", "h">>, <<"D", "z", "u", "l", "h", "i", "j", "j", "a", "h">>>>

formatMonthName(monthKey) ==
    LET parts == SplitLiteral(monthKey, <<"-">>)
        monthIndex == ParseInt(parts[2]) - 1
    IN  MONTH_NAMES_ID[monthIndex + 1] \o <<" ">> \o parts[1]

\* Math.floor(y - 579 - (y - 2000) * 0.03), for the years from 2000 on
approximateHijriMonth(dateStr) ==
    LET gregorianYear == getFullYear(dateStr)
        hijriYear == gregorianYear - 579 - ((3 * (gregorianYear - 2000) + 99) \div 100)
        hijriMonthIndex == (getMonth(dateStr) + 5) % 12
    IN  HIJRI_MONTH_NAMES[hijriMonthIndex + 1] \o <<" ">> \o NumberToString(hijriYear)

\* a + b of two numbers
Plus(a, b) == IF a = NaN \/ b = NaN THEN NaN ELSE a + b

\* A Map is kept as the sequence of its entries in insertion order.
MapHas(map, key) == \E i \in 1..Len(map) : map[i].key = key
MapGet(map, key) == map[CHOOSE i \in 1..Len(map) : map[i].key = key].value
\* Map.prototype.set: a new key goes last, a known key keeps its place
MapSet(map, key, value) ==
    IF MapHas(map, key)
    THEN [i \in 1..Len(map) |-> IF map[i].key = key THEN [key |-> key, value |-> value] ELSE map[i]]
    ELSE Append(map, [key |-> key, value |-> value])

\* the body of the forEach of extractUniqueLandings, for one package
LandingsVisit(cityMap, pkg) ==
    LET departureCity == extractDestinationCity(pkg.keberangkatan.rute)
        counted == IF departureCity # <<>>
                   THEN MapSet(cityMap, departureCity,
                               [count |-> (IF MapHas(cityMap, departureCity)
                                           THEN MapGet(cityMap, departureCity).count ELSE 0) + 1])
                   ELSE cityMap
        returnParts == SplitDash(pkg.kepulangan.rute)
        returnOrigin == ToUpperCase(Trim(returnParts[1]))
    IN  IF Len(returnParts) >= 1 /\ returnOrigin # <<>> /\ returnOrigin # departureCity
           /\ ~MapHas(counted, returnOrigin)
        THEN MapSet(counted, returnOrigin, [count |-> 1])
        ELSE counted

\* a list that would always offer both Saudi cities, with the number of packages
\* landing at each
extractUniqueLandingsBothCities(pkgs) ==
    LET codes == <<<<"J", "E", "D">>, <<"M", "E", "D">>>>
        landingAt(code) ==
            Cardinality({k \in 1..Len(pkgs) :
                            extractDestinationCity(pkgs[k].keberangkatan.rute) = code})
        byCountDesc(a, b) == Minus(b.packageCount, a.packageCount)
    IN  Sort([i \in 1..2 |-> [code |-> codes[i], name |-> getCityName(codes[i]),
                              packageCount |-> landingAt(codes[i])]],
             byCountDesc)

extractUniqueLandings(pkgs) ==
    CHOOSE r \in {LET cityMap[k \in 0..Len(a)] ==
                          IF k = 0 THEN <<>> ELSE LandingsVisit(cityMap[k - 1], a[k])
                      landingOf(entry) ==
                          [code |-> entry.key, name |-> getCityName(entry.key),
                           packageCount |-> entry.value.count]
                      isSaudiCity(city) == city.code \in {<<"J", "E", "D">>, <<"M", "E", "D">>}
                      byCountDesc(x, y) == Minus(y.packageCount, x.packageCount)
                  IN  Sort(Filter(Map(cityMap[Len(a)], landingOf), isSaudiCity),
                           byCountDesc) :
                  a \in {pkgs}} : TRUE

\* the body of the forEach of groupByMonth, for one package
GroupVisit(monthMap, pkg) ==
    LET monthKey == getMonthKey(pkg.keberangkatan.tgl)
    IN  IF MapHas(monthMap, monthKey)
        THEN LET existing == MapGet(monthMap, monthKey)
             IN  MapSet(monthMap, monthKey,
                        [packages |-> Append(existing.packages, pkg),
                         totalSeat |-> Plus(existing.totalSeat, pkg.seatTotal),
                         availableSeat |-> Plus(existing.availableSeat, pkg.seatSisa)])
        ELSE MapSet(monthMap, monthKey,
                    [packages |-> <<pkg>>, totalSeat |-> pkg.seatTotal,
                     availableSeat |-> pkg.seatSisa])

\* String.prototype.localeCompare on two month keys: -1, 0 or 1
RECURSIVE localeCompare(_, _)
localeCompare(a, b) ==
    IF a = <<>> /\ b = <<>> THEN 0
    ELSE IF a = <<>> THEN 0 - 1
    ELSE IF b = <<>> THEN 1
    ELSE IF Head(a) = Head(b) THEN localeCompare(Tail(a), Tail(b))
    ELSE IF IndexIn(Head(a), <<"-">> \o Digits) < IndexIn(Head(b), <<"-">> \o Digits) THEN 0 - 1
    ELSE 1

groupByMonth(pkgs) ==
    CHOOSE r \in {LET monthMap[k \in 0..Len(a)] ==
                          IF k = 0 THEN <<>> ELSE GroupVisit(monthMap[k - 1], a[k])
                      groupOf(entry) ==
                          [monthKey |-> entry.key,
                           monthName |-> formatMonthName(entry.key),
                           monthNameHijri |->
                               approximateHijriMonth(entry.value.packages[1].keberangkatan.tgl),
                           totalSeat |-> entry.value.totalSeat,
                           availableSeat |-> entry.value.availableSeat,
                           packageCount |-> Len(entry.value.packages),
                           packages |-> entry.value.packages]
                      byMonthKey(x, y) == localeCompare(x.monthKey, y.monthKey)
                  IN  Sort(Map(monthMap[Len(a)], groupOf), byMonthKey) :
                  a \in {pkgs}} : TRUE

getMonthOptions(pkgs) ==
    LET optionOf(group) ==
            [value |-> group.monthKey,
             label |-> group.monthName,
             sublabel |-> NumberToString(group.packageCount)
                              \o <<" ", "p", "a", "k", "e", "t", " ", "bullet", " ">>
                              \o NumberToString(group.availableSeat) \o <<"/">>
                              \o NumberToString(group.totalSeat)
                              \o <<" ", "k", "u", "r", "s", "i">>,
             totalSeat |-> group.totalSeat,
             availableSeat |-> group.availableSeat]
    IN  Map(groupByMonth(pkgs), optionOf)

\* Array.prototype.reduce((sum, p) => sum + f(p), 0)
RECURSIVE SumSeq(_)
SumSeq(numbers) ==
    IF numbers = <<>> THEN 0
    ELSE Plus(SumSeq(SubSeq(numbers, 1, Len(numbers) - 1)), numbers[Len(numbers)])
getFilterStats(pkgs) ==
    LET hasSeats(p) == p.seatSisa # NaN /\ p.seatSisa > 0
        isSoldOut(p) == p.seatSisa = 0
        isPromo(p) == p.isPromo
        seatTotalOf(p) == p.seatTotal
        seatSisaOf(p) == p.seatSisa
    IN  [total |-> Len(pkgs),
         available |-> Len(Filter(pkgs, hasSeats)),
         soldOut |-> Len(Filter(pkgs, isSoldOut)),
         promo |-> Len(Filter(pkgs, isPromo)),
         totalSeats |-> SumSeq(Map(pkgs, seatTotalOf)),
         availableSeats |-> SumSeq(Map(pkgs, seatSisaOf))]

CallGroupByMonth ==
    /\ fnCall = NoCall
    /\ fnCall' = [name |-> "groupByMonth"]
    /\ fnResult' = groupByMonth(fnData)
    /\ UNCHANGED <<fnData, timeZone>>

CallGetMonthOptions ==
    /\ fnCall = NoCall
    /\ fnCall' = [name |-> "getMonthOptions"]
    /\ fnResult' = getMonthOptions(fnData)
    /\ UNCHANGED <<fnData, timeZone>>

CallExtractUniqueLandings ==
    /\ fnCall = NoCall
    /\ fnCall' = [name |-> "extractUniqueLandings"]
    /\ fnResult' = extractUniqueLandings(fnData)
    /\ UNCHANGED <<fnData, timeZone>>

CallGetFilterStats ==
    /\ fnCall = NoCall
    /\ fnCall' = [name |-> "getFilterStats"]
    /\ fnResult' = getFilterStats(fnData)
    /\ UNCHANGED <<fnData, timeZone>>

\* the filter states the memo of App is called with
MemoModes == {"AVAILABLE", "SEMUA DATA"}
MemoQuickFilters == QuickFilters \cup {Null}
MemoRanges == {<<>>, <<"06-12">>}

\* one run of the useMemo callback of filteredPackages
CallFilteredPackagesMemo(fm, sq, qf, dr) ==
    /\ fnCall = NoCall
    /\ fnCall' = [name |-> "filteredPackages", filterMode |-> fm, searchQuery |-> sq,
                  quickFilter |-> qf, departureTimeRanges |-> dr, data |-> fnData]
    /\ fnResult' = filteredPackagesMemo(fnData, fm, <<>>, sq, qf, dr, <<>>).list
    /\ fnData' = filteredPackagesMemo(fnData, fm, <<>>, sq, qf, dr, <<>>).stored
    /\ UNCHANGED timeZone

InitDrawn ==
    /\ InitApp /\ InitGet /\ InitProxy /\ InitMeta /\ InitShare /\ InitScroll
    /\ timeZone \in TimeZones
    /\ fnData \in Inputs
    /\ fnCall = NoCall
    /\ fnResult = <<>>

NextUtil ==
    \/ \E mode \in FilterModes : \E value \in SecondaryValues :
           CallFilterPackages(mode, value) /\ UNCHANGED <<appVars, getVars, proxyVars, metaVars, shareVars, scrollVars>>
    \/ \E mode \in AdvancedModes : \E value \in {<<>>, <<"M", "E", "D">>} :
       \E query \in AdvancedQueries : \E sortBy \in SortOrders :
           /\ CallFilterPackagesAdvanced([mode |-> mode, secondaryValue |-> value,
                                          searchQuery |-> query, sortBy |-> sortBy])
           /\ UNCHANGED <<appVars, getVars, proxyVars, metaVars, shareVars, scrollVars>>
    \/ CallGroupByMonth /\ UNCHANGED <<appVars, getVars, proxyVars, metaVars, shareVars, scrollVars>>
    \/ CallGetMonthOptions /\ UNCHANGED <<appVars, getVars, proxyVars, metaVars, shareVars, scrollVars>>
    \/ CallExtractUniqueLandings /\ UNCHANGED <<appVars, getVars, proxyVars, metaVars, shareVars, scrollVars>>
    \/ CallGetFilterStats /\ UNCHANGED <<appVars, getVars, proxyVars, metaVars, shareVars, scrollVars>>
    \/ \E fm \in MemoModes : \E sq \in SearchQueries : \E qf \in MemoQuickFilters :
       \E dr \in MemoRanges :
           CallFilteredPackagesMemo(fm, sq, qf, dr) /\ UNCHANGED <<appVars, getVars, proxyVars, metaVars, shareVars, scrollVars>>

SpecUtil == InitDrawn /\ [][NextUtil]_vars

(***************************************************************************)
(* The share buttons of BrochureModal and ItineraryModal (SpecShare): one  *)
(* run of handleShareBrosur / handleShareItinerary from the click to the   *)
(* finally block, an action per await that settles.                        *)
(***************************************************************************)
Modals == {"brochure", "itinerary"}
\* what navigator.share may reject with
ShareErrors == {"AbortError", "NotAllowedError", "DataError"}

\* the run in progress, or the last one
CurrentRun == shRuns[Len(shRuns)]
\* the run goes on: it records what has settled and what the handler did
RunWith(failed, share, effect) ==
    [shRuns EXCEPT ![Len(shRuns)] =
        [@ EXCEPT !.failed = failed, !.share = share,
                  !.effects = IF effect = "none" THEN @ ELSE Append(@, effect)]]

\* the click on the button, which is rendered when the modal has a URL and is
\* disabled while isSharing: the handler up to its await of fetch
handleShareClick(modal) ==
    /\ shPhase \in {"idle", "finished"}
    /\ Len(shRuns) < MaxRuns
    /\ ~isSharing[modal]
    /\ isSharing' = [isSharing EXCEPT ![modal] = TRUE]
    /\ shRuns' = Append(shRuns, [modal |-> modal, failed |-> "none", share |-> "none",
                                 effects |-> <<>>])
    /\ shPhase' = "fetching"

\* catch (error): window.open of the https URL, then finally: setIsSharing(false)
CatchAndFinally(failed) ==
    /\ shRuns' = RunWith(failed, "none", "open")
    /\ isSharing' = [isSharing EXCEPT ![CurrentRun.modal] = FALSE]
    /\ shPhase' = "finished"

\* the file is at hand: navigator.canShare decides between the await of
\* navigator.share and triggerDownload, after which finally runs
ShareOrDownload(canShare) ==
    IF canShare
    THEN /\ shPhase' = "sharing"
         /\ UNCHANGED <<shRuns, isSharing>>
    ELSE /\ shRuns' = RunWith("none", "unavailable", "download")
         /\ isSharing' = [isSharing EXCEPT ![CurrentRun.modal] = FALSE]
         /\ shPhase' = "finished"

\* fetch settles: rejected, resolved with a status that is not ok, or ok
ShareFetchSettles(result) ==
    /\ shPhase = "fetching"
    /\ IF result = "ok"
       THEN shPhase' = "readingBlob" /\ UNCHANGED <<shRuns, isSharing>>
       ELSE CatchAndFinally(result)

\* response.blob() settles; the itinerary is shared as it is, the brochure is
\* first drawn on a canvas
ShareBlobSettles(read, canShare) ==
    /\ shPhase = "readingBlob"
    /\ IF ~read THEN CatchAndFinally("blob")
       ELSE IF CurrentRun.modal = "brochure"
       THEN shPhase' = "converting" /\ UNCHANGED <<shRuns, isSharing>>
       ELSE ShareOrDownload(canShare)

\* the promise of the PNG conversion settles: rejected by img.onerror, by a
\* missing canvas context or by toBlob(null), or resolved with the PNG
ConversionSettles(converted, canShare) ==
    /\ shPhase = "converting"
    /\ IF converted THEN ShareOrDownload(canShare) ELSE CatchAndFinally("conversion")

\* a handler that would download after any rejection of navigator.share
NavigatorShareSettlesThenDownloads(result) ==
    /\ shPhase = "sharing"
    /\ shRuns' = RunWith("none", result, IF result = "completed" THEN "shared" ELSE "download")
    /\ isSharing' = [isSharing EXCEPT ![CurrentRun.modal] = FALSE]
    /\ shPhase' = "finished"

\* navigator.share settles: resolved, or rejected with an error of some name
NavigatorShareSettles(result) ==
    /\ shPhase = "sharing"
    /\ shRuns' = RunWith("none", result,
                         CASE result = "completed" -> "shared"
                           [] result = "AbortError" -> "none"
                           [] OTHER -> "download")
    /\ isSharing' = [isSharing EXCEPT ![CurrentRun.modal] = FALSE]
    /\ shPhase' = "finished"

NextShare ==
    \/ \E modal \in Modals :
           handleShareClick(modal) /\ UNCHANGED <<appVars, getVars, proxyVars, metaVars, utilVars, scrollVars>>
    \/ \E result \in {"rejected", "status", "ok"} :
           ShareFetchSettles(result) /\ UNCHANGED <<appVars, getVars, proxyVars, metaVars, utilVars, scrollVars>>
    \/ \E read \in BOOLEAN : \E canShare \in BOOLEAN :
           ShareBlobSettles(read, canShare) /\ UNCHANGED <<appVars, getVars, proxyVars, metaVars, utilVars, scrollVars>>
    \/ \E converted \in BOOLEAN : \E canShare \in BOOLEAN :
           ConversionSettles(converted, canShare) /\ UNCHANGED <<appVars, getVars, proxyVars, metaVars, utilVars, scrollVars>>
    \/ \E result \in {"completed"} \cup ShareErrors :
           NavigatorShareSettles(result) /\ UNCHANGED <<appVars, getVars, proxyVars, metaVars, utilVars, scrollVars>>

SpecShare == Init /\ [][NextShare]_vars

(***************************************************************************)
(* FilterHeader: the header that hides while the page scrolls down         *)
(* (checked under SpecScroll).  handleScroll is a useCallback over the      *)
(* lastScrollY state, registered on window by an effect: the listener that  *)
(* runs compares against the lastScrollY of the render it was made in, and  *)
(* the listener of the latest render replaces it only when the effect runs, *)
(* which React does in a task of its own after the commit.                  *)
(***************************************************************************)

ScrollPositions(height) == {y \in 0..(height - InnerHeight) : y % 5 = 0}

handleScroll(currentScrollY, documentHeight) ==
    /\ currentScrollY # scrollY       \* the event is fired when the position changed
    /\ scrollY' = currentScrollY
    /\ scrollHeight' = documentHeight
    /\ isVisible' =
           IF currentScrollY = 0 THEN TRUE
           ELSE IF InnerHeight + currentScrollY >= documentHeight - 10 THEN TRUE
           ELSE IF currentScrollY > listenerLastScrollY THEN FALSE
           ELSE TRUE
    /\ lastScrollY' = currentScrollY
    /\ recordedBefore' = <<lastScrollY>>
    /\ UNCHANGED listenerLastScrollY

ScrollListenerEffect ==
    /\ listenerLastScrollY # lastScrollY
    /\ listenerLastScrollY' = lastScrollY
    /\ UNCHANGED <<scrollY, scrollHeight, isVisible, lastScrollY, recordedBefore>>

NextScroll ==
    \/ \E documentHeight \in ScrollHeights : \E currentScrollY \in ScrollPositions(documentHeight) :
           handleScroll(currentScrollY, documentHeight) /\ UNCHANGED <<appVars, getVars, proxyVars, metaVars, utilVars, shareVars>>
    \/ ScrollListenerEffect /\ UNCHANGED <<appVars, getVars, proxyVars, metaVars, utilVars, shareVars>>

SpecScroll == Init /\ [][NextScroll]_vars

(***************************************************************************)
(* Claims about App (checked under Spec).                                  *)
(***************************************************************************)
SameElements(a, b) ==
    /\ Len(a) = Len(b)
    /\ \A x \in {a[i] : i \in 1..Len(a)} \cup {b[i] : i \in 1..Len(b)} :
           Cardinality({i \in 1..Len(a) : a[i] = x}) = Cardinality({i \in 1..Len(b) : b[i] = x})

\* C1: the stored packages array is never mutated in place: a step that only
\* recomputes the displayed list (no fetch starts or resolves in it) leaves
\* packages with the same elements in the same order.
C1_PackagesNeverMutated == [][requests' = requests => packages' = packages]_vars

\* C2: at every moment at most one getPackages request of App is outstanding.
C2_AtMostOneOutstanding == Cardinality(PendingRequests) <= 1

\* C3: whenever no request is outstanding, packages holds the batch returned by
\* the request for the selected year (the last one started), or nothing if that
\* request failed.  The order of the elements is left out of the comparison, so
\* that only a batch of another request violates it.
C3_PackagesAreOfSelectedYear ==
    (PendingRequests = {} /\ requests # <<>>) =>
        LET last == requests[Len(requests)]
        IN  /\ last.yearCode = selectedYear
            /\ SameElements(packages, last.result.packages)

\* C6: the step in which a fetch of App completes with failure ends with
\* error != null, packages = [] and loading = false.
C6_FailureShowsBannerOnly ==
    [][\A i \in 1..Len(requests) :
           (Pending(i) /\ requests'[i].status = "resolved" /\ ~requests'[i].result.success)
               => (error' # Null /\ packages' = <<>> /\ filteredPackages' = <<>>
                   /\ loading' = FALSE)]_vars

\* a failed fetch that followed a successful one, with the banner up and the list empty
C6_Witness ==
    /\ Len(requests) >= 2
    /\ requests[1].status = "resolved" /\ requests[1].result.success
    /\ requests[1].result.packages # <<>>
    /\ requests[2].status = "resolved" /\ ~requests[2].result.success
    /\ error # Null /\ ~loading /\ packages = <<>>

\* C7: a step starts at most one request; it starts one only on mount, on a
\* change of the selected year or on a press of the retry button (shown when
\* error && !loading), never in the step in which a request resolves; the
\* request is for the selected year; and each of these three events starts one.
C7_NoAutomaticRetry ==
    [][LET started == Len(requests') - Len(requests)
       IN  /\ started \in {0, 1}
           /\ started = 1 =>
                  /\ requests'[Len(requests')].yearCode = selectedYear'
                  /\ requests'[Len(requests')].status = "pending"
                  /\ \A i \in 1..Len(requests) : requests'[i] = requests[i]
                  /\ \/ ~mounted /\ mounted'
                     \/ selectedYear' # selectedYear
                     \/ error # Null /\ ~loading
           /\ (~mounted /\ mounted') => started = 1
           /\ selectedYear' # selectedYear => started = 1
           /\ (error # Null /\ error' = Null) => started = 1]_vars

\* the retry button was pressed after a failed fetch: a second request for the same year
C7_Witness ==
    /\ Len(requests) = 2
    /\ requests[1].status = "resolved" /\ ~requests[1].result.success
    /\ requests[2].status = "pending" /\ requests[2].yearCode = requests[1].yearCode
    /\ loading /\ error = Null

(***************************************************************************)
(* Claims about getPackages (checked under SpecGet).                       *)
(***************************************************************************)
\* C4: every call is bounded by its timeout: a call whose complete response
\* (headers and body) has not been obtained is never still unresolved after
\* its timeout has elapsed.
C4_BoundedByTimeout ==
    gpPhase \in {"fetching", "reading"} => gpClock * TickMs <= gpTimeout

\* C5: a resolved call that failed has success = false, packages = [],
\* totalRecords = 0 and a non-empty error; a call succeeds only when the
\* response is OK and the body has status 'ok', and then packages holds the
\* transformed elements of aaData, one for one, in order.
C5_ResultShape ==
    gpPhase = "resolved" =>
        /\ ~gpResult.success =>
               /\ gpResult.packages = <<>>
               /\ gpResult.totalRecords = 0
               /\ gpResult.error \notin {"", Undefined, Null}
        /\ gpResult.success =>
               /\ gpResponse # <<>> /\ ResponseOk(gpResponse[1])
               /\ gpBody.kind = "json" /\ gpBody.data.status = "ok"
               /\ ~gpSignalAborted
               /\ Len(gpResult.packages) = Len(gpBody.data.aaData)
               /\ \A i \in 1..Len(gpBody.data.aaData) :
                      gpResult.packages[i] = transformPackage(gpBody.data.aaData[i])

\* a call that succeeded with two packages
C5_Witness ==
    /\ gpPhase = "resolved" /\ gpResult.success /\ Len(gpResult.packages) = 2

(***************************************************************************)
(* Claims about the edge-function proxies (checked under SpecProxy).       *)
(***************************************************************************)
\* the proxy has answered a request for which the upstream sent a response
\* whose body the proxy did not fail to read
AnsweredFromUpstream ==
    pxPhase = "responded" /\ pxUpstream # <<>> /\ pxBody # "failed"

UpstreamFailed ==
    pxFetches > 0 /\ pxPhase = "responded" /\ (pxUpstream = <<>> \/ pxBody = "failed")

\* C9: a proxy makes at most one upstream fetch for a request, and after an
\* upstream failure it has answered with its error response, having fetched once.
C9_SingleHop ==
    /\ pxFetches <= 1
    /\ UpstreamFailed =>
           /\ pxResponse = ProxyErrorResponse(pxProxy)
           /\ pxResponse.status \in {500, 502}

\* the /brosur/* proxy has answered 502 after its only fetch was rejected
C9_Witness ==
    /\ UpstreamFailed
    /\ pxProxy = "brosurPath"
    /\ pxUpstream = <<>>
    /\ pxFetches = 1
    /\ pxResponse.status = 502


(***************************************************************************)
(* Claims about the meta-tag middleware (checked under SpecMeta).          *)
(***************************************************************************)
\* the middleware has answered an HTML response, which has a <title> and a
\* </head>, for a path whose first segment is, in lower case, a key of AGENTS_DATA
AnsweredAgentPage ==
    /\ mwPhase = "responded"
    /\ IsHtmlResponse(mwUpstream[1])
    /\ SlugOf(mwPath) \in DOMAIN AGENTS_DATA
    /\ \E i \in 1..Len(mwUpstream[1].html) : TitleRegexMatches(mwUpstream[1].html[i])
    /\ \E i \in 1..Len(mwUpstream[1].html) : HeadCloseMatches(mwUpstream[1].html[i])

\* C10: for every slug that is a key of AGENTS_DATA, an HTML response for
\* /<slug> in any letter case leaves the middleware with a title naming that
\* agent in place of its <title>, and with the Open Graph tags before </head>.
C10_EveryAgentSlugRewritten ==
    AnsweredAgentPage =>
        LET html == mwResponse[1].html
            name == Trim(AGENTS_DATA[SlugOf(mwPath)].name)
        IN  /\ \E i \in 1..Len(html) :
                   /\ html[i].tag = "<title>"
                   /\ html[i].text = <<"J", "a", "d", "w", "a", "l", " ", "U", "m", "r", "o", "h", " ", "A", "l", "h", "i", "j", "a", "z", " ", "|", " ">> \o name
            /\ \E i \in 1..(Len(html) - 1) :
                   /\ html[i].tag = "og-tags"
                   /\ html[i + 1].tag = "</head>"

(***************************************************************************)
(* Claims about the functions of utils/filterLogic (checked under SpecUtil)*)
(***************************************************************************)
\* the part of a route after its last dash, without the spaces around it, in
\* upper case (the whole route when it has no dash)
RouteDestination(route) ==
    LET dashes == {i \in 1..Len(route) : IsDash(route[i])}
        last == IF dashes = {} THEN 0 ELSE CHOOSE i \in dashes : \A j \in dashes : j <= i
    IN  ToUpperCase(Trim(SubSeq(route, last + 1, Len(route))))

\* the year and month a package departs in, as written in its date (YYYY-MM)
DepartureMonth(pkg) == SubSeq(pkg.keberangkatan.tgl, 1, 7)

\* the predicate of a mode
SatisfiesMode(pkg, mode, value) ==
    CASE mode = "AVAILABLE" -> pkg.seatSisa > 0
      [] mode = "PROMO" -> pkg.isPromo
      [] mode = "LANDING" /\ value # <<>> ->
            LET dest == RouteDestination(pkg.keberangkatan.rute)
            IN  \/ ToUpperCase(value) = dest
                \/ ToUpperCase(value) = ToUpperCase(getCityName(dest))
      [] mode = "DATA PER-BULAN" /\ value # <<>> -> DepartureMonth(pkg) = value
      [] OTHER -> TRUE

\* C11: filterPackages returns exactly the packages of its input that satisfy
\* the predicate of the mode, in the order they have in the input.
C11_FilterPackagesSubset ==
    fnCall.name = "filterPackages" =>
        LET keep(pkg) == SatisfiesMode(pkg, fnCall.mode, fnCall.secondaryValue)
        IN  fnResult = SelectSeq(fnData, keep)

\* the lowest price a package lists for Double, Triple or Quad in any tier (0
\* when it lists none)
LowestListedPrice(pkg) ==
    LET listed == {ParseInt(p) : p \in UNION {{pkg.harga[t].Double, pkg.harga[t].Triple,
                                               pkg.harga[t].Quard} \ {<<>>} :
                                              t \in 1..Len(pkg.harga)}} \ {NaN}
    IN  IF listed = {} THEN 0 ELSE CHOOSE v \in listed : \A w \in listed : v <= w

\* whether a package passes the search of filterPackagesAdvanced
PassesSearch(pkg, typed) ==
    \/ typed = Undefined
    \/ Trim(typed) = <<>>
    \/ \E text \in {ToLowerCase(pkg.nama), ToLowerCase(pkg.maskapai),
                    pkg.keberangkatan.tgl, pkg.kepulangan.tgl} :
           Includes(text, ToLowerCase(Trim(typed)))

\* the packages of the input that pass the mode filter and the search
AdvancedPassing(data, options) ==
    LET passes(pkg) == PassesSearch(pkg, options.searchQuery)
    IN  SelectSeq(IF options.mode = Undefined THEN data
                  ELSE filterPackages(data, [mode |-> options.mode,
                                             secondaryValue |-> options.secondaryValue]),
                  passes)

\* C12: the result of filterPackagesAdvanced is a permutation of the packages
\* that pass the mode filter and the search, in the order asked for (departure
\* date or lowest listed price, ascending or descending), and the array passed
\* in is left as it was.
C12_AdvancedSortsWithoutTouchingInput ==
    fnCall.name = "filterPackagesAdvanced" =>
        LET sortBy == fnCall.options.sortBy
            date(i) == DateTime(fnResult[i].keberangkatan.tgl)
            price(i) == LowestListedPrice(fnResult[i])
        IN  /\ SameElements(fnResult, AdvancedPassing(fnCall.data, fnCall.options))
            /\ \A i, j \in 1..Len(fnResult) :
                   i < j => CASE sortBy = "date_asc" -> date(i) <= date(j)
                              [] sortBy = "date_desc" -> date(i) >= date(j)
                              [] sortBy = "price_asc" -> price(i) <= price(j)
                              [] sortBy = "price_desc" -> price(i) >= price(j)
                              [] OTHER -> TRUE
            /\ fnData = fnCall.data

\* a call with no filter and no search that sorts three packages by price,
\* descending, into an order other than the one they were passed in
C12_Witness ==
    /\ fnCall.name = "filterPackagesAdvanced"
    /\ fnCall.options.sortBy = "price_desc"
    /\ fnCall.options.mode = Undefined /\ fnCall.options.searchQuery = Undefined
    /\ Len(fnResult) = 3
    /\ fnResult # fnCall.data
    /\ fnData = fnCall.data

\* the array a call was made on
CallInput == IF fnCall.name = "filterPackagesAdvanced" THEN fnCall.data ELSE fnData

\* C13: on an empty package list filterPackages, filterPackagesAdvanced,
\* groupByMonth, getMonthOptions and extractUniqueLandings return an empty list
\* and getFilterStats returns counts that are all 0.
C13_EmptyInEmptyOut ==
    (fnCall.name # "none" /\ CallInput = <<>>) =>
        IF fnCall.name = "getFilterStats"
        THEN fnResult = [total |-> 0, available |-> 0, soldOut |-> 0, promo |-> 0,
                         totalSeats |-> 0, availableSeats |-> 0]
        ELSE fnResult = <<>>

\* extractUniqueLandings has been called on the empty list
C13_Witness ==
    /\ fnCall.name = "extractUniqueLandings"
    /\ fnData = <<>>
    /\ fnResult = <<>>

\* C15: every city extractUniqueLandings returns is JED or MED and is returned
\* once, its packageCount is the number of packages of the input whose
\* departure route ends at it, and the cities come in non-increasing
\* packageCount order.
C15_LandingCounts ==
    fnCall.name = "extractUniqueLandings" =>
        /\ \A i \in 1..Len(fnResult) :
               /\ fnResult[i].code \in {<<"J", "E", "D">>, <<"M", "E", "D">>}
               /\ fnResult[i].packageCount =
                      Cardinality({k \in 1..Len(fnData) :
                                      RouteDestination(fnData[k].keberangkatan.rute)
                                          = fnResult[i].code})
        /\ \A i, j \in 1..Len(fnResult) :
               /\ fnResult[i].code = fnResult[j].code => i = j
               /\ i < j => fnResult[i].packageCount >= fnResult[j].packageCount

\* C16: groupByMonth partitions its input by departure month: every package of
\* the input is in exactly one group, the one whose monthKey is the YYYY-MM of
\* its departure date; packageCount, totalSeat and availableSeat of a group are
\* the number of its packages and the sums of their seatTotal and seatSisa; no
\* group is empty; the groups come in strictly ascending monthKey order.
C16_GroupByMonthPartitions ==
    fnCall.name = "groupByMonth" =>
        LET inMonth(key) == SelectSeq(fnData, LAMBDA pkg : DepartureMonth(pkg) = key)
        IN  /\ \A k \in 1..Len(fnData) :
                   \E i \in 1..Len(fnResult) : fnResult[i].monthKey = DepartureMonth(fnData[k])
            /\ \A i \in 1..Len(fnResult) :
                   /\ fnResult[i].packages = inMonth(fnResult[i].monthKey)
                   /\ fnResult[i].packages # <<>>
                   /\ fnResult[i].packageCount = Len(fnResult[i].packages)
                   /\ fnResult[i].totalSeat =
                          SumSeq([k \in 1..Len(fnResult[i].packages) |->
                                     fnResult[i].packages[k].seatTotal])
                   /\ fnResult[i].availableSeat =
                          SumSeq([k \in 1..Len(fnResult[i].packages) |->
                                     fnResult[i].packages[k].seatSisa])
            /\ \A i, j \in 1..Len(fnResult) :
                   i < j => localeCompare(fnResult[i].monthKey, fnResult[j].monthKey) < 0

\* the lowest price above 0 a package lists (Infinity when it lists none)
LowestPositivePrice(pkg) ==
    LET listed == {ParseInt(p) : p \in UNION {{pkg.harga[t].Quard, pkg.harga[t].Triple,
                                               pkg.harga[t].Double} \ {<<>>} :
                                              t \in 1..Len(pkg.harga)}}
        positive == {v \in listed : v # NaN /\ v > 0}
    IN  IF positive = {} THEN Infinity ELSE CHOOSE v \in positive : \A w \in positive : v <= w

\* C19: the displayed list is ordered: by non-decreasing departure date when
\* the quick filter is none, promo or rahmah, by non-decreasing seatSisa when
\* it is urgent, by non-decreasing lowest positive price when it is termurah,
\* with or without a search query.
C19_DisplayedListOrdered ==
    fnCall.name = "filteredPackages" =>
        \A i, j \in 1..Len(fnResult) :
            i < j => CASE fnCall.quickFilter = "urgent" ->
                              fnResult[i].seatSisa <= fnResult[j].seatSisa
                       [] fnCall.quickFilter = "termurah" ->
                              LowestPositivePrice(fnResult[i]) <= LowestPositivePrice(fnResult[j])
                       [] OTHER -> DateTime(fnResult[i].keberangkatan.tgl)
                                       <= DateTime(fnResult[j].keberangkatan.tgl)

\* termurah with a search typed in: two packages are shown, cheapest first, in
\* an order that is not their order by date
C19_Witness ==
    /\ fnCall.name = "filteredPackages"
    /\ fnCall.quickFilter = "termurah"
    /\ fnCall.searchQuery # <<>>
    /\ Len(fnResult) = 2
    /\ LowestPositivePrice(fnResult[1]) < LowestPositivePrice(fnResult[2])
    /\ DateTime(fnResult[1].keberangkatan.tgl) > DateTime(fnResult[2].keberangkatan.tgl)

(***************************************************************************)
(* Claims about App and its cards (checked under SpecCards)                *)
(***************************************************************************)
\* the cards of the displayed list that are rendered expanded
ExpandedCards == {i \in 1..Len(filteredPackages) : filteredPackages[i].jadwalId = expandedCardId}

\* C14: in the package list App holds after a fetch no two packages have the
\* same jadwalId, so that the expanded-card id designates at most one card of
\* the list and getPackageById at most one package.
C14_JadwalIdUnique ==
    /\ \A i, j \in 1..Len(packages) : packages[i].jadwalId = packages[j].jadwalId => i = j
    /\ Cardinality(ExpandedCards) <= 1

(***************************************************************************)
(* Further claims about the proxies (checked under SpecProxy) and about    *)
(* the middleware (checked under SpecMeta)                                 *)
(***************************************************************************)
\* C17: every response a proxy produces carries Access-Control-Allow-Origin: *,
\* whether it answers a success, an upstream error status, a failed fetch, a
\* request without the url parameter or an OPTIONS preflight.
C17_AlwaysAllowOrigin ==
    pxPhase = "responded" => pxResponse.headers.allowOrigin = "*"

\* C20: when the downstream response is not HTML, or the first segment of the
\* path, lower-cased, is not the slug of an agent, the middleware returns the
\* downstream response unchanged: same body, status and headers.
C20_OthersPassThrough ==
    (/\ mwPhase = "responded"
     /\ \/ ~IsHtmlResponse(mwUpstream[1])
        \/ SlugOf(mwPath) \notin DOMAIN AGENTS) =>
        mwResponse = mwUpstream

\* the filter state of a fresh page
FiltersReset ==
    /\ filterMode = "AVAILABLE"
    /\ filterSecondaryValue = <<>>
    /\ searchQuery = <<>>
    /\ quickFilter = Null
    /\ departureTimeRanges = <<>>
    /\ returnTimeRanges = <<>>

FinishedRuns ==
    {shRuns[i] : i \in {k \in 1..Len(shRuns) : k < Len(shRuns) \/ shPhase = "finished"}}

\* the outcomes of a run: the share sheet completed; the user cancelled it and
\* nothing else was done; the file was downloaded, the share being unavailable
\* or having failed otherwise; the URL was opened because of one of the causes
OutcomesOf(run, openCauses) ==
    {outcome \in {"shared", "cancelled", "downloaded", "opened"} :
        CASE outcome = "shared" -> run.effects = <<"shared">> /\ run.share = "completed"
          [] outcome = "cancelled" -> run.effects = <<>> /\ run.share = "AbortError"
          [] outcome = "downloaded" ->
                /\ run.effects = <<"download">>
                /\ run.share \in {"unavailable"} \cup (ShareErrors \ {"AbortError"})
          [] OTHER -> run.effects = <<"open">> /\ run.failed \in openCauses}

\* no share handler is running and no modal shows its button as busy
HandlersAtRest == shPhase \in {"idle", "finished"} => \A modal \in Modals : ~isSharing[modal]

\* C21 as stated: every finished run of a share handler has exactly one
\* outcome (shared, cancelled, downloaded, or the https URL opened because the
\* fetch of the file failed), and isSharing is false once the handler has
\* finished.
C21_OneOutcomeFetchFailure ==
    /\ \A run \in FinishedRuns :
           Cardinality(OutcomesOf(run, {"rejected", "status", "blob"})) = 1
    /\ HandlersAtRest

\* C21: every finished run of a share handler has exactly one outcome: shared,
\* cancelled, downloaded, or the https URL opened because the fetch of the file
\* or, for the brochure, its conversion to PNG failed; and isSharing is false
\* once the handler has finished.
C21_OneOutcomePerRun ==
    /\ \A run \in FinishedRuns :
           Cardinality(OutcomesOf(run, {"rejected", "status", "blob", "conversion"})) = 1
    /\ HandlersAtRest

\* a brochure whose file was fetched could not be drawn as a PNG: its run ended
\* with the URL opened in a new tab; the itinerary was shared before it
C21_Witness ==
    /\ shPhase = "finished"
    /\ Len(shRuns) = 2
    /\ shRuns[1].modal = "itinerary" /\ shRuns[1].effects = <<"shared">>
    /\ shRuns[2].modal = "brochure" /\ shRuns[2].failed = "conversion"
    /\ shRuns[2].effects = <<"open">>
    /\ ~isSharing["brochure"]


(***************************************************************************)
(* Claims about the filter header (checked under SpecScroll)               *)
(***************************************************************************)

AtTopOrBottom == scrollY = 0 \/ InnerHeight + scrollY >= scrollHeight - 10

\* C22: after every scroll event the header is visible if scrollY is 0 or the
\* viewport is within 10px of the document bottom; otherwise it is hidden
\* exactly when scrollY is greater than the scrollY recorded at the previous
\* scroll event, and visible when it is not.
C22_VisibleUnlessScrollingDown ==
    recordedBefore # <<>> =>
        isVisible = (AtTopOrBottom \/ ~(scrollY > recordedBefore[1]))

\* Two scroll events reached the listener of the same render: the page went
\* down and then up again, and the header is hidden.
C22_StaleListener ==
    /\ recordedBefore # <<>>
    /\ ~AtTopOrBottom
    /\ scrollY < recordedBefore[1]
    /\ listenerLastScrollY < scrollY
    /\ ~isVisible


(***************************************************************************)
(* Claims about the secondary filter of App (checked under Spec)           *)
(***************************************************************************)

SecondaryModes == {"LANDING", "DATA PER-BULAN"}

SecondaryValueStep ==
    /\ (filterMode' # filterMode \/ selectedYear' # selectedYear)
           => filterSecondaryValue' = <<>>
    /\ (filterSecondaryValue' # <<>> /\ filterSecondaryValue' # filterSecondaryValue)
           => (filterMode' = filterMode /\ filterMode \in SecondaryModes)

\* C23: in every reachable state of App filterSecondaryValue is non-empty only
\* when filterMode is LANDING or DATA PER-BULAN; a step that changes the mode
\* or the year leaves it empty (a reset leaves the mode AVAILABLE, and it
\* empty), and a step gives it a new non-empty value only while one of those
\* two modes is selected and stays selected.
C23_SecondaryValueOnlyInItsModes ==
    /\ [](filterSecondaryValue # <<>> => filterMode \in SecondaryModes)
    /\ [][SecondaryValueStep]_vars

\* A month is picked in the month dropdown of DATA PER-BULAN.
C23_Witness ==
    /\ filterMode = "DATA PER-BULAN"
    /\ filterSecondaryValue = <<"2", "0", "2", "6", "-", "0", "6">>
    /\ packages # <<>>

=============================================================================
